---- MODULE Spec2Model ----
(***************************************************************************)
(* A model of the Cluedo deduction engine (internal/ai), of the catalog    *)
(* (internal/config) and of the game loop (internal/game).                 *)
(*                                                                         *)
(* Spec makes calls on one brain, as the detective mode does; ChainSpec    *)
(* feeds one brain a chain of observed turns; SimSpec is a simulation of   *)
(* AI players, as Build and RunSimulation run it.                          *)
(*                                                                         *)
(* One AdvancedAIBrain is a record with the fields of the Go struct.  The  *)
(* methods of the brain are operators from a brain (and the arguments) to  *)
(* a record holding the brain after the call and what the call returned.   *)
(* Strings are strings; Go maps are functions whose DOMAIN is the key set, *)
(* and a read of a missing key gives the zero value, as in Go.             *)
(***************************************************************************)
EXTENDS Integers, Sequences, FiniteSets, TLC

VARIABLES
    brains,     \* player name -> AdvancedAIBrain, for every brain that was set up
    game,       \* the Game of a simulation: its players, solution, turn and result
    last,       \* what the most recent call was, and what it returned
    nops        \* number of calls made so far

vars == <<brains, game, last, nops>>

-----------------------------------------------------------------------------
(* Bounds of the model *)

\* number of calls made on the brain in one behaviour of Spec
MaxOps == 3

\* number of observed turns in one behaviour of ChainSpec
MaxLinks == 11

\* number of cells written in one behaviour of GridSpec
MaxWrites == 4

\* number of calls that change the brain in one behaviour of ChooserSpec
MaxChoices == 3

\* number of calls that change the brain in one behaviour of PickSpec
MaxPicks == 3

\* number of calls after the hand in one behaviour of StrikeSpec
MaxStrikes == 5

-----------------------------------------------------------------------------
(* Program constants *)

\* ai.CardStatus
StatusMaybe == 0
StatusYes == 1
StatusNo == 2

\* config.CardCategory
CategorySuspect == 0
CategoryWeapon == 1
CategoryRoom == 2

\* the safety break of _runDeductionLoop
MaxPasses == 10

\* the location that stands for the solution envelope
SolutionLoc == "solution"

\* the suggester name of a direct reveal
GameEventName == "Game Event"

categories == <<CategorySuspect, CategoryWeapon, CategoryRoom>>

-----------------------------------------------------------------------------
(* Strings and slices *)

Range(s) == {s[i] : i \in DOMAIN s}

\* Every name the model uses, in the order of Go's string comparison.
Alphabet ==
    <<"Bogus", "Dagger", "Green", "Hall", "Mustard", "Plum", "R1", "R2", "Rope",
      "S1", "S2", "S3", "S4", "S5", "S6", "S7", "Study",
      "W1", "W2", "W3", "W4", "W5", "W6", "W7">>

Rank(s) == CHOOSE i \in 1..Len(Alphabet) : Alphabet[i] = s

\* sort.Strings, on a slice without duplicates given as the set of its elements
RECURSIVE SortStrings(_)
SortStrings(S) ==
    IF S = {} THEN <<>>
    ELSE LET first == CHOOSE x \in S : \A y \in S : Rank(x) <= Rank(y)
         IN  <<first>> \o SortStrings(S \ {first})

-----------------------------------------------------------------------------
(* internal/config *)

RECURSIVE TypeAll(_, _)
\* the card -> category map built by Load, for a list of <<card, category>>
TypeAll(pairs, m) ==
    IF pairs = <<>> THEN m
    ELSE LET p == Head(pairs)
         IN  TypeAll(Tail(pairs),
                     [c \in DOMAIN m \cup {p[1]} |-> IF c = p[1] THEN p[2] ELSE m[c]])

Tag(list, cat) == [i \in 1..Len(list) |-> <<list[i], cat>>]

\* config.Load on a file holding the three lists
Load(suspects, weapons, rooms) ==
    LET s == SortStrings(Range(suspects))
        w == SortStrings(Range(weapons))
        r == SortStrings(Range(rooms))
    IN  [Suspects   |-> s,
         Weapons    |-> w,
         Rooms      |-> r,
         AllCards   |-> s \o w \o r,
         CardToType |-> TypeAll(Tag(s, CategorySuspect) \o Tag(w, CategoryWeapon)
                                  \o Tag(r, CategoryRoom), <<>>)]

CardListForCategory(cfg, cat) ==
    CASE cat = CategorySuspect -> cfg.Suspects
      [] cat = CategoryWeapon  -> cfg.Weapons
      [] cat = CategoryRoom    -> cfg.Rooms
      [] OTHER                 -> <<>>

\* a catalog with seven suspects, seven weapons and two rooms
ChainConfig ==
    Load(<<"S1", "S2", "S3", "S4", "S5", "S6", "S7">>,
         <<"W1", "W2", "W3", "W4", "W5", "W6", "W7">>, <<"R1", "R2">>)

\* cfg.CardToType[card]: a card that is no key reads as the zero value
TypeOf(cfg, card) ==
    IF card \in DOMAIN cfg.CardToType THEN cfg.CardToType[card] ELSE CategorySuspect

\* the catalog of the calls of Spec
SmallConfig == Load(<<"Plum", "Green", "Mustard">>, <<"Rope", "Dagger">>, <<"Hall", "Study">>)

-----------------------------------------------------------------------------
(* internal/ai: the brain *)

\* NewAdvancedAIBrain followed by Setup
Setup(cfg, playerNames, myName, chooser) ==
    [name                  |-> myName,
     config                |-> cfg,
     players               |-> playerNames,
     hand                  |-> {},
     knowledge             |-> [card \in Range(cfg.AllCards) |->
                                  [loc \in Range(playerNames) \cup {SolutionLoc} |-> StatusMaybe]],
     unresolvedSuggestions |-> <<>>,
     recentSurgicalTargets |-> <<>>,
     chooser               |-> chooser]

\* ai.knowledge[card][loc]: a missing card or location reads as the zero value
KnowledgeAt(ai, card, loc) ==
    IF card \in DOMAIN ai.knowledge /\ loc \in DOMAIN ai.knowledge[card]
    THEN ai.knowledge[card][loc]
    ELSE StatusMaybe

\* players followed by "solution", as _markCardLocation builds it
AllLocations(ai) == ai.players \o <<SolutionLoc>>

\* _markCardLocation with allLocations built from the players alone
MarkSkippingSolution(ai, card, location) ==
    IF card \notin DOMAIN ai.config.CardToType
    THEN [ai |-> ai, changed |-> FALSE]
    ELSE IF KnowledgeAt(ai, card, location) = StatusYes
    THEN [ai |-> ai, changed |-> FALSE]
    ELSE LET closed == Range(ai.players)
             row    == ai.knowledge[card]
             newRow == [loc \in DOMAIN row \cup closed \cup {location} |->
                          IF loc = location THEN StatusYes
                          ELSE IF loc \in closed THEN StatusNo
                          ELSE row[loc]]
         IN  [ai |-> [ai EXCEPT !.knowledge[card] = newRow], changed |-> TRUE]

\* _markCardLocation without the look-up of the card in CardToType
MarkWithoutValidation(ai, card, location) ==
    IF KnowledgeAt(ai, card, location) = StatusYes
    THEN [ai |-> ai, changed |-> FALSE]
    ELSE LET closed == Range(AllLocations(ai))
             row    == IF card \in DOMAIN ai.knowledge THEN ai.knowledge[card] ELSE <<>>
             newRow == [loc \in DOMAIN row \cup closed \cup {location} |->
                          IF loc = location THEN StatusYes
                          ELSE IF loc \in closed THEN StatusNo
                          ELSE row[loc]]
         IN  [ai |-> [ai EXCEPT !.knowledge =
                         [c \in DOMAIN @ \cup {card} |-> IF c = card THEN newRow ELSE @[c]]],
              changed |-> TRUE]

\* _markCardLocation without the test for a cell that is Yes already: it
\* writes the row again and reports a change
MarkAlwaysChanging(ai, card, location) ==
    IF card \notin DOMAIN ai.config.CardToType
    THEN [ai |-> ai, changed |-> FALSE]
    ELSE LET closed == Range(AllLocations(ai))
             row    == ai.knowledge[card]
             newRow == [loc \in DOMAIN row \cup closed \cup {location} |->
                          IF loc = location THEN StatusYes
                          ELSE IF loc \in closed THEN StatusNo
                          ELSE row[loc]]
         IN  [ai |-> [ai EXCEPT !.knowledge[card] = newRow], changed |-> TRUE]

MarkCardLocation(ai, card, location) ==
    IF card \notin DOMAIN ai.config.CardToType
    THEN [ai |-> ai, changed |-> FALSE]
    ELSE IF KnowledgeAt(ai, card, location) = StatusYes
    THEN [ai |-> ai, changed |-> FALSE]
    ELSE LET closed == Range(AllLocations(ai))
             row    == ai.knowledge[card]
             newRow == [loc \in DOMAIN row \cup closed \cup {location} |->
                          IF loc = location THEN StatusYes
                          ELSE IF loc \in closed THEN StatusNo
                          ELSE row[loc]]
         IN  [ai |-> [ai EXCEPT !.knowledge[card] = newRow], changed |-> TRUE]

RECURSIVE PruneFrom(_, _, _, _, _)
\* the loop of _pruneAndSolveMysteries from mystery i on; removed records the
\* mysteries that were not appended to remainingMysteries
PruneFrom(ai, i, remainingMysteries, changed, removed) ==
    IF i > Len(ai.unresolvedSuggestions)
    THEN [ai      |-> [ai EXCEPT !.unresolvedSuggestions = remainingMysteries],
          changed |-> changed \/ Len(remainingMysteries) < Len(ai.unresolvedSuggestions),
          removed |-> removed]
    ELSE LET mystery     == ai.unresolvedSuggestions[i]
             prunedCards == {card \in mystery.PossibleCards :
                               KnowledgeAt(ai, card, mystery.Disprover) # StatusNo}
             shrank      == Cardinality(prunedCards) < Cardinality(mystery.PossibleCards)
             pruned      == [mystery EXCEPT !.PossibleCards = prunedCards]
         IN  IF Cardinality(prunedCards) = 1
             THEN LET card == CHOOSE c \in prunedCards : TRUE
                      m    == MarkCardLocation(ai, card, mystery.Disprover)
                  IN  PruneFrom(m.ai, i + 1, remainingMysteries,
                                changed \/ shrank \/ m.changed,
                                removed \cup {[left  |-> 1,
                                               valid |-> card \in DOMAIN ai.config.CardToType,
                                               yes   |-> KnowledgeAt(m.ai, card, mystery.Disprover) = StatusYes]})
             ELSE IF Cardinality(prunedCards) > 1
             THEN PruneFrom(ai, i + 1, Append(remainingMysteries, pruned),
                            changed \/ shrank, removed)
             ELSE PruneFrom(ai, i + 1, remainingMysteries, changed \/ shrank,
                            removed \cup {[left |-> 0, valid |-> FALSE, yes |-> FALSE]})

\* _pruneAndSolveMysteries keeping only the cards that are Maybe at the disprover
PruneKeepingMaybes(ai) ==
    LET r       == PruneFrom(ai, 1, <<>>, FALSE, {})
        Cut(m)  == [m EXCEPT !.PossibleCards =
                      {c \in @ : KnowledgeAt(r.ai, c, m.Disprover) = StatusMaybe}]
    IN  [r EXCEPT !.ai.unresolvedSuggestions = [i \in DOMAIN @ |-> Cut(@[i])]]

\* _pruneAndSolveMysteries keeping in the tracked set the mysteries that it
\* has pruned to one card
PruneKeepingSolved(ai) ==
    LET r           == PruneFrom(ai, 1, <<>>, FALSE, {})
        Cut(m)      == [m EXCEPT !.PossibleCards =
                          {c \in @ : KnowledgeAt(r.ai, c, m.Disprover) # StatusNo}]
        NonEmpty(m) == m.PossibleCards # {}
        all         == [i \in DOMAIN ai.unresolvedSuggestions |-> Cut(ai.unresolvedSuggestions[i])]
    IN  [r EXCEPT !.ai.unresolvedSuggestions = SelectSeq(all, NonEmpty)]

PruneAndSolveMysteries(ai) == PruneFrom(ai, 1, <<>>, FALSE, {})

RECURSIVE SolutionFromIgnoringSolved(_, _, _)
\* the loop of _deduceSolutionByElimination without the isSolved test
SolutionFromIgnoringSolved(ai, i, changed) ==
    IF i > Len(categories) THEN [ai |-> ai, changed |-> changed]
    ELSE LET cardList   == CardListForCategory(ai.config, categories[i])
             IsMaybe(c) == ai.knowledge[c][SolutionLoc] = StatusMaybe
             maybes     == SelectSeq(cardList, IsMaybe)
         IN  IF Len(maybes) # 1
             THEN SolutionFromIgnoringSolved(ai, i + 1, changed)
             ELSE LET m == MarkCardLocation(ai, maybes[1], SolutionLoc)
                  IN  SolutionFromIgnoringSolved(m.ai, i + 1, changed \/ m.changed)

RECURSIVE SolutionFrom(_, _, _)
\* the loop of _deduceSolutionByElimination from category index i on; the cards
\* of the catalog and "solution" are keys of the grid since Setup
SolutionFrom(ai, i, changed) ==
    IF i > Len(categories) THEN [ai |-> ai, changed |-> changed]
    ELSE LET cardList   == CardListForCategory(ai.config, categories[i])
             IsYes(c)   == ai.knowledge[c][SolutionLoc] = StatusYes
             IsMaybe(c) == ai.knowledge[c][SolutionLoc] = StatusMaybe
             isSolved   == \E j \in 1..Len(cardList) : IsYes(cardList[j])
             maybes     == SelectSeq(cardList, IsMaybe)
         IN  IF isSolved \/ Len(maybes) # 1
             THEN SolutionFrom(ai, i + 1, changed)
             ELSE LET m == MarkCardLocation(ai, maybes[1], SolutionLoc)
                  IN  SolutionFrom(m.ai, i + 1, changed \/ m.changed)

DeduceSolutionByElimination(ai) == SolutionFrom(ai, 1, FALSE)

RECURSIVE LocationsFromAtFirstMaybe(_, _, _)
\* the loop of _deduceCardLocationsByElimination marking the first Maybe
\* location of a card also when the card has several
LocationsFromAtFirstMaybe(ai, i, changed) ==
    IF i > Len(ai.config.AllCards) THEN [ai |-> ai, changed |-> changed]
    ELSE LET card         == ai.config.AllCards[i]
             row          == ai.knowledge[card]
             allLocations == AllLocations(ai)
             IsMaybe(loc) == row[loc] = StatusMaybe
             maybes       == SelectSeq(allLocations, IsMaybe)
             isKnown      == \E loc \in Range(allLocations) : row[loc] = StatusYes
         IN  IF ~isKnown /\ Len(maybes) >= 1
             THEN LET m == MarkCardLocation(ai, card, maybes[1])
                  IN  LocationsFromAtFirstMaybe(m.ai, i + 1, changed \/ m.changed)
             ELSE LocationsFromAtFirstMaybe(ai, i + 1, changed)

RECURSIVE LocationsFrom(_, _, _)
\* the loop of _deduceCardLocationsByElimination from card index i on.  The
\* inner loop leaves at the first Yes with isKnown set, and maybes is read only
\* when it did not: then it holds every Maybe location, in order.
LocationsFrom(ai, i, changed) ==
    IF i > Len(ai.config.AllCards) THEN [ai |-> ai, changed |-> changed]
    ELSE LET card         == ai.config.AllCards[i]
             row          == ai.knowledge[card]
             allLocations == AllLocations(ai)
             IsMaybe(loc) == row[loc] = StatusMaybe
             isKnown      == \E j \in 1..Len(allLocations) : row[allLocations[j]] = StatusYes
             maybes       == SelectSeq(allLocations, IsMaybe)
         IN  IF ~isKnown /\ Len(maybes) = 1
             THEN LET m == MarkCardLocation(ai, card, maybes[1])
                  IN  LocationsFrom(m.ai, i + 1, changed \/ m.changed)
             ELSE LocationsFrom(ai, i + 1, changed)

DeduceCardLocationsByElimination(ai) == LocationsFrom(ai, 1, FALSE)

\* one pass of the loop body of _runDeductionLoop
DeductionPass(ai) ==
    LET p == PruneAndSolveMysteries(ai)
        s == DeduceSolutionByElimination(p.ai)
        l == DeduceCardLocationsByElimination(s.ai)
    IN  [ai      |-> l.ai,
         changed |-> p.changed \/ s.changed \/ l.changed,
         removed |-> p.removed]

RECURSIVE LoopFromOffByOne(_, _, _)
\* _runDeductionLoop with the bound written i <= 10
LoopFromOffByOne(ai, i, removed) ==
    IF i > MaxPasses
    THEN [ai |-> ai, passes |-> i, settled |-> FALSE, removed |-> removed]
    ELSE LET p == DeductionPass(ai)
         IN  IF ~p.changed
             THEN [ai |-> p.ai, passes |-> i + 1, settled |-> TRUE,
                   removed |-> removed \cup p.removed]
             ELSE LoopFromOffByOne(p.ai, i + 1, removed \cup p.removed)

RECURSIVE LoopFrom(_, _, _)
\* _runDeductionLoop from pass i on; passes counts the passes that ran and
\* settled tells whether the loop left through its break
LoopFrom(ai, i, removed) ==
    IF i >= MaxPasses
    THEN [ai |-> ai, passes |-> i, settled |-> FALSE, removed |-> removed]
    ELSE LET p == DeductionPass(ai)
         IN  IF ~p.changed
             THEN [ai |-> p.ai, passes |-> i + 1, settled |-> TRUE,
                   removed |-> removed \cup p.removed]
             ELSE LoopFrom(p.ai, i + 1, removed \cup p.removed)

RunDeductionLoop(ai) == LoopFrom(ai, 0, {})

RECURSIVE ReceiveFrom(_, _)
\* the loop of ReceiveHand over the cards
ReceiveFrom(ai, cards) ==
    IF cards = <<>> THEN ai
    ELSE LET held == [ai EXCEPT !.hand = @ \cup {Head(cards)}]
         IN  ReceiveFrom(MarkCardLocation(held, Head(cards), ai.name).ai, Tail(cards))

ReceiveHand(ai, cards) == RunDeductionLoop(ReceiveFrom(ai, cards))

RECURSIVE MarkAll(_, _, _)
\* _markCardLocation for each card of a set (the order does not matter: the
\* cards are distinct and each call writes its own row)
MarkAll(ai, cards, location) ==
    IF cards = {} THEN ai
    ELSE LET card == CHOOSE c \in cards : TRUE
         IN  MarkAll(MarkCardLocation(ai, card, location).ai, cards \ {card}, location)

\* the arms of processTurnEvent, noting a mystery also when this player is the
\* disprover
EventBranchCountingMe(ai, event) ==
    IF event.SuggesterName = GameEventName
    THEN (IF event.DisproverName # "" /\ event.RevealedCard # "" THEN "reveal" ELSE "skip")
    ELSE IF ai.name = event.SuggesterName
    THEN (IF event.DisproverName # "" /\ event.RevealedCard # "" THEN "shown"
          ELSE IF event.DisproverName = "" THEN "undisproved"
          ELSE "unseen")
    ELSE IF event.DisproverName # "" THEN "mystery"
    ELSE "other"

\* which arm of processTurnEvent an event takes
EventBranch(ai, event) ==
    IF event.SuggesterName = GameEventName
    THEN (IF event.DisproverName # "" /\ event.RevealedCard # "" THEN "reveal" ELSE "skip")
    ELSE IF ai.name = event.SuggesterName
    THEN (IF event.DisproverName # "" /\ event.RevealedCard # "" THEN "shown"
          ELSE IF event.DisproverName = "" THEN "undisproved"
          ELSE "unseen")
    ELSE IF event.DisproverName # "" /\ event.DisproverName # ai.name THEN "mystery"
    ELSE "other"

\* processTurnEvent marking, after a suggestion nobody disproved, every
\* suggested card at "solution", those of the hand too
ApplyEventIgnoringHand(ai, event) ==
    LET branch == EventBranch(ai, event)
    IN  CASE branch \in {"reveal", "shown"} ->
                MarkCardLocation(ai, event.RevealedCard, event.DisproverName).ai
          [] branch = "undisproved" ->
                MarkAll(ai, Range(event.Suggestion), SolutionLoc)
          [] branch = "mystery" ->
                [ai EXCEPT !.unresolvedSuggestions =
                    Append(@, [Disprover     |-> event.DisproverName,
                               PossibleCards |-> Range(event.Suggestion)])]
          [] OTHER -> ai

\* processTurnEvent up to, and without, its final _runDeductionLoop
ApplyEvent(ai, event) ==
    LET branch == EventBranch(ai, event)
    IN  CASE branch \in {"reveal", "shown"} ->
                MarkCardLocation(ai, event.RevealedCard, event.DisproverName).ai
          [] branch = "undisproved" ->
                MarkAll(ai, Range(event.Suggestion) \ ai.hand, SolutionLoc)
          [] branch = "mystery" ->
                [ai EXCEPT !.unresolvedSuggestions =
                    Append(@, [Disprover     |-> event.DisproverName,
                               PossibleCards |-> Range(event.Suggestion)])]
          [] OTHER -> ai

\* a result for a call that did not run the deduction loop
NoLoop(ai) == [ai |-> ai, passes |-> 0, settled |-> TRUE, removed |-> {}]

ProcessTurnEvent(ai, event) ==
    IF event.SuggesterName = GameEventName
    THEN NoLoop(ApplyEvent(ai, event))
    ELSE RunDeductionLoop(ApplyEvent(ai, event))

\* the search of ShouldAccuse taking every card that is not No at "solution"
KnownSolutionCardNotNo(ai, cardList) ==
    LET hits == {j \in 1..Len(cardList) : KnowledgeAt(ai, cardList[j], SolutionLoc) # StatusNo}
    IN  IF hits = {} THEN ""
        ELSE cardList[CHOOSE j \in hits : \A k \in hits : j <= k]

\* the first card of the list that is Yes at "solution", "" when there is none
KnownSolutionCard(ai, cardList) ==
    LET hits == {j \in 1..Len(cardList) : KnowledgeAt(ai, cardList[j], SolutionLoc) = StatusYes}
    IN  IF hits = {} THEN ""
        ELSE cardList[CHOOSE j \in hits : \A k \in hits : j <= k]

\* the nil map
NilSuggestion == <<>>

ShouldAccuse(ai) ==
    LET known == [cat \in Range(categories) |->
                    KnownSolutionCard(ai, CardListForCategory(ai.config, cat))]
    IN  IF \E cat \in Range(categories) : known[cat] = "" THEN NilSuggestion ELSE known

\* RandomChooser.Choose: the cards it can return
Choose(cards) == IF cards = <<>> THEN {""} ELSE Range(cards)

\* DeterministicChooser.Choose: the card it returns, the first of the sorted
\* slice.  It sorts the slice of its caller in place: a local slice, or the
\* list of a category, which Load has sorted.
DeterministicChoose(cards) ==
    IF cards = <<>> THEN {""} ELSE {SortStrings(Range(cards))[1]}

\* ai.chooser.Choose
ChooseBy(chooser, cards) ==
    IF chooser = "deterministic" THEN DeterministicChoose(cards) ELSE Choose(cards)

\* ChooseCardToShow taking any card of canShow, whatever the chooser
ChooseCardToShowAtRandom(ai, suggestion) ==
    LET canShow == SortStrings({card \in Range(suggestion) : card \in ai.hand})
    IN  Choose(canShow)

\* the cards ChooseCardToShow can return: canShow holds the suggested cards of
\* the hand, in the order the map gave them, here in one of its orders
ChooseCardToShow(ai, suggestion) ==
    LET canShow == SortStrings({card \in Range(suggestion) : card \in ai.hand})
    IN  ChooseBy(ai.chooser, canShow)

\* _pickUnknownCard without its second list, notMyCards
PickUnknownCardOfAll(ai, cat) ==
    LET cardList    == CardListForCategory(ai.config, cat)
        IsMaybe(c)  == c \notin ai.hand /\ KnowledgeAt(ai, c, SolutionLoc) = StatusMaybe
        maybes      == SelectSeq(cardList, IsMaybe)
    IN  IF Len(maybes) > 0 THEN Range(maybes)
        ELSE ChooseBy(ai.chooser, cardList)

\* the cards _pickUnknownCard can return
PickUnknownCard(ai, cat) ==
    LET cardList    == CardListForCategory(ai.config, cat)
        IsMaybe(c)  == c \notin ai.hand /\ KnowledgeAt(ai, c, SolutionLoc) = StatusMaybe
        NotMine(c)  == c \notin ai.hand
        maybes      == SelectSeq(cardList, IsMaybe)
        notMyCards  == SelectSeq(cardList, NotMine)
    IN  IF Len(maybes) > 0 THEN Range(maybes)
        ELSE IF Len(notMyCards) > 0 THEN ChooseBy(ai.chooser, notMyCards)
        ELSE ChooseBy(ai.chooser, cardList)

\* the suggestions with, for each category, one of the cards of options[cat]
SuggestionsOver(options) ==
    {[cat \in Range(categories) |->
         CASE cat = CategorySuspect -> s [] cat = CategoryWeapon -> w [] OTHER -> r] :
       s \in options[CategorySuspect], w \in options[CategoryWeapon],
       r \in options[CategoryRoom]}

\* ExploitStrategy.BuildSuggestion asking the unknown-card picker for every
\* category
ExploitIgnoringKnown(ai) ==
    LET known      == [cat \in Range(categories) |->
                         KnownSolutionCard(ai, CardListForCategory(ai.config, cat))]
        knownCount == Cardinality({cat \in Range(categories) : known[cat] # ""})
        options    == [cat \in Range(categories) |-> PickUnknownCard(ai, cat)]
    IN  IF knownCount > 0 /\ knownCount < 3
        THEN {[ai |-> ai, suggestion |-> sg] : sg \in SuggestionsOver(options)}
        ELSE {}

\* ExploitStrategy.BuildSuggestion: the results it can give, none when the
\* strategy does not apply
ExploitStrategy(ai) ==
    LET known      == [cat \in Range(categories) |->
                         KnownSolutionCard(ai, CardListForCategory(ai.config, cat))]
        knownCount == Cardinality({cat \in Range(categories) : known[cat] # ""})
        options    == [cat \in Range(categories) |->
                         IF known[cat] # "" THEN {known[cat]} ELSE PickUnknownCard(ai, cat)]
    IN  IF knownCount > 0 /\ knownCount < 3
        THEN {[ai |-> ai, suggestion |-> sg] : sg \in SuggestionsOver(options)}
        ELSE {}

\* StringDeque.Push dropping the newest element of a full deque
PushDroppingNewest(elements, maxSize, str) ==
    LET pushed == Append(elements, str)
    IN  IF Len(pushed) > maxSize THEN elements ELSE pushed

\* StringDeque.Push
Push(elements, maxSize, str) ==
    LET pushed == Append(elements, str)
    IN  IF Len(pushed) > maxSize THEN Tail(pushed) ELSE pushed

\* _buildSuggestionAroundTarget without the loop over the hand
BuildSuggestionWithoutHand(ai, targetCard) ==
    LET targetCategory == TypeOf(ai.config, targetCard)
        options        == [cat \in Range(categories) |->
                             IF cat = targetCategory THEN {targetCard}
                             ELSE PickUnknownCard(ai, cat)]
    IN  SuggestionsOver(options)

\* the suggestions _buildSuggestionAroundTarget can return: the target, and for
\* each other category the first card of that category in the shuffled hand,
\* or an unknown card when the hand has none
BuildSuggestionAroundTarget(ai, targetCard) ==
    LET targetCategory == TypeOf(ai.config, targetCard)
        InHand(cat)    == {c \in ai.hand : TypeOf(ai.config, c) = cat}
        options        == [cat \in Range(categories) |->
                             IF cat = targetCategory THEN {targetCard}
                             ELSE IF InHand(cat) # {} THEN InHand(cat)
                             ELSE PickUnknownCard(ai, cat)]
    IN  SuggestionsOver(options)

\* SurgicalStrikeStrategy.BuildSuggestion choosing among all the targets,
\* those of recentSurgicalTargets too
SurgicalStrikeImpatient(ai) ==
    LET cardFrequency  == UNION {ai.unresolvedSuggestions[i].PossibleCards :
                                   i \in 1..Len(ai.unresolvedSuggestions)}
    IN  IF Len(ai.unresolvedSuggestions) = 0 \/ cardFrequency = {} THEN {}
        ELSE {[ai |-> [ai EXCEPT !.recentSurgicalTargets = Push(@, 3, targetCard)],
               suggestion |-> sg] :
                <<targetCard, sg>> \in
                    UNION {{<<t, g>> : g \in BuildSuggestionAroundTarget(ai, t)} :
                             t \in ChooseBy(ai.chooser, SortStrings(cardFrequency))}}

\* SurgicalStrikeStrategy.BuildSuggestion: the results it can give.  The order
\* of sortedTargets comes from a map and the chooser picks any of the targets.
SurgicalStrikeStrategy(ai) ==
    LET cardFrequency  == UNION {ai.unresolvedSuggestions[i].PossibleCards :
                                   i \in 1..Len(ai.unresolvedSuggestions)}
        patient        == cardFrequency \ Range(ai.recentSurgicalTargets)
        patientTargets == IF patient = {} THEN cardFrequency ELSE patient
    IN  IF Len(ai.unresolvedSuggestions) = 0 \/ cardFrequency = {} THEN {}
        ELSE {[ai |-> [ai EXCEPT !.recentSurgicalTargets = Push(@, 3, targetCard)],
               suggestion |-> sg] :
                <<targetCard, sg>> \in
                    UNION {{<<t, g>> : g \in BuildSuggestionAroundTarget(ai, t)} :
                             t \in ChooseBy(ai.chooser, SortStrings(patientTargets))}}

\* ExploreStrategy.mustBuild recording the suspect it names as a target
ExploreRecordingTarget(ai) ==
    {[ai |-> [ai EXCEPT !.recentSurgicalTargets = Push(@, 3, sg[CategorySuspect])],
      suggestion |-> sg] :
        sg \in SuggestionsOver([cat \in Range(categories) |-> PickUnknownCard(ai, cat)])}

\* ExploreStrategy.mustBuild
ExploreStrategy(ai) ==
    {[ai |-> ai, suggestion |-> sg] :
        sg \in SuggestionsOver([cat \in Range(categories) |-> PickUnknownCard(ai, cat)])}

\* the results of a strategy, each with the name of the strategy
Built(results, strategy) ==
    {[ai |-> r.ai, suggestion |-> r.suggestion, strategy |-> strategy] : r \in results}

\* MakeSuggestion with the strategies in the order Surgical Strike, Exploit
MakeSuggestionSurgicalFirst(ai) ==
    IF SurgicalStrikeStrategy(ai) # {} THEN Built(SurgicalStrikeStrategy(ai), "SurgicalStrike")
    ELSE IF ExploitStrategy(ai) # {} THEN Built(ExploitStrategy(ai), "Exploit")
    ELSE Built(ExploreStrategy(ai), "Explore")

\* MakeSuggestion: the results of the first strategy that applies
MakeSuggestion(ai) ==
    IF ExploitStrategy(ai) # {} THEN Built(ExploitStrategy(ai), "Exploit")
    ELSE IF SurgicalStrikeStrategy(ai) # {} THEN Built(SurgicalStrikeStrategy(ai), "SurgicalStrike")
    ELSE Built(ExploreStrategy(ai), "Explore")

-----------------------------------------------------------------------------
(* internal/game *)

\* the loop bound of RunSimulation
TurnLimit == 50

RECURSIVE DealFromKeepingSolution(_, _, _, _)
\* the loop of deal dealing to the players the cards of the solution too
DealFromKeepingSolution(cfg, deck, solution, cardsToDeal) ==
    IF deck = <<>> THEN [Solution |-> solution, cardsToDeal |-> cardsToDeal]
    ELSE LET card     == deck[Len(deck)]
             category == TypeOf(cfg, card)
             rest     == SubSeq(deck, 1, Len(deck) - 1)
         IN  IF category \notin DOMAIN solution
             THEN DealFromKeepingSolution(cfg, rest,
                           [c \in DOMAIN solution \cup {category} |->
                              IF c = category THEN card ELSE solution[c]],
                           Append(cardsToDeal, card))
             ELSE DealFromKeepingSolution(cfg, rest, solution, Append(cardsToDeal, card))

RECURSIVE DealFrom(_, _, _, _)
\* the loop of deal over the shuffled deck, from its last card down
DealFrom(cfg, deck, solution, cardsToDeal) ==
    IF deck = <<>> THEN [Solution |-> solution, cardsToDeal |-> cardsToDeal]
    ELSE LET card     == deck[Len(deck)]
             category == TypeOf(cfg, card)
             rest     == SubSeq(deck, 1, Len(deck) - 1)
         IN  IF category \notin DOMAIN solution
             THEN DealFrom(cfg, rest,
                           [c \in DOMAIN solution \cup {category} |->
                              IF c = category THEN card ELSE solution[c]],
                           cardsToDeal)
             ELSE DealFrom(cfg, rest, solution, Append(cardsToDeal, card))

\* deal: the solution, and the hand of each of n players
Deal(cfg, n, deck) ==
    LET d      == DealFrom(cfg, deck, <<>>, <<>>)
        sorted == SortStrings(Range(d.cardsToDeal))
        Mine(p) == LET Is(i) == (i - 1) % n = p - 1
                   IN  {i \in 1..Len(sorted) : Is(i)}
    IN  [Solution |-> d.Solution,
         hands    |-> [p \in 1..n |-> SortStrings({sorted[i] : i \in Mine(p)})]]

-----------------------------------------------------------------------------
(* internal/player: the human player, and calls through the Player interface *)

\* NewHumanPlayer followed by Setup
HumanSetup(cfg, myName) == [name |-> myName, cfg |-> cfg, hand |-> {}, isHuman |-> TRUE]

\* IsHuman
IsHuman(p) == "isHuman" \in DOMAIN p

\* HumanPlayer.ReceiveHand
HumanReceiveHand(h, cards) == [h EXCEPT !.hand = @ \cup Range(cards)]

\* HumanPlayer.ChooseCardToShow: canShow[0], canShow being filled in the
\* order of a range over the map of the suggestion
HumanChooseCardToShow(h, suggestion) ==
    LET canShow == {card \in Range(suggestion) : card \in h.hand}
    IN  IF canShow = {} THEN {""} ELSE canShow

\* Player.ChooseCardToShow
PlayerChooseCardToShow(p, suggestion) ==
    IF IsHuman(p) THEN HumanChooseCardToShow(p, suggestion) ELSE ChooseCardToShow(p, suggestion)

-----------------------------------------------------------------------------
(* internal/game: suggestions *)

\* handleSuggestion asking the players against the turn order
HandleSuggestionBackwards(players, bs, suggesterIdx, suggestion) ==
    LET n        == Len(players)
        Idx(i)   == ((suggesterIdx - 1 + n - i) % n) + 1
        CanShow(i) == PlayerChooseCardToShow(bs[players[Idx(i)]], suggestion) # {""}
        showing  == {i \in 1..(n - 1) : CanShow(i)}
    IN  IF showing = {} THEN {<<"", "">>}
        ELSE LET first == CHOOSE i \in showing : \A j \in showing : i <= j
             IN  {<<players[Idx(first)], card>> :
                     card \in PlayerChooseCardToShow(bs[players[Idx(first)]], suggestion)}

\* handleSuggestion: the (disprover, card shown) pairs it can return
HandleSuggestion(players, bs, suggesterIdx, suggestion) ==
    LET n        == Len(players)
        Idx(i)   == ((suggesterIdx - 1 + i) % n) + 1
        CanShow(i) == PlayerChooseCardToShow(bs[players[Idx(i)]], suggestion) # {""}
        showing  == {i \in 1..(n - 1) : CanShow(i)}
    IN  IF showing = {} THEN {<<"", "">>}
        ELSE LET first == CHOOSE i \in showing : \A j \in showing : i <= j
             IN  {<<players[Idx(first)], card>> :
                     card \in PlayerChooseCardToShow(bs[players[Idx(first)]], suggestion)}

\* checkAccusation
CheckAccusation(solution, accusation) ==
    \A cat \in DOMAIN accusation : solution[cat] = accusation[cat]

-----------------------------------------------------------------------------
(* The calls made on one brain *)

Me == "P1"
PlayerNames == <<"P1", "P2", "P3">>

\* a location name that is no player of the game
Stranger == "Stranger"
\* a card name that is not in the catalog
Bogus == "Bogus"

Cards == Range(SmallConfig.AllCards)

Suggestion(s, w, r) ==
    [cat \in Range(categories) |->
        CASE cat = CategorySuspect -> s [] cat = CategoryWeapon -> w [] OTHER -> r]

\* the suggestions of the events: every card of the catalog is in one of them,
\* two of them share a card, and one names a card the catalog does not have
SuggestionInputs ==
    {Suggestion("Green", "Dagger", "Hall"), Suggestion("Mustard", "Dagger", "Study"),
     Suggestion("Plum", "Rope", "Hall"), Suggestion("Green", "Rope", "Study"),
     Suggestion(Bogus, "Dagger", "Hall")}

\* the hands given to ReceiveHand: no card, one card, or the cards of a suggestion
HandInputs ==
    {SortStrings(S) : S \in {{}} \cup {{c} : c \in {"Green", "Dagger", "Hall", Bogus}}
                                \cup {Range(s) : s \in SuggestionInputs}}

TurnResolvedEvent(suggester, suggestion, disprover, revealed) ==
    [SuggesterName |-> suggester, Suggestion |-> suggestion,
     DisproverName |-> disprover, RevealedCard |-> revealed]

\* some suggestion that names the card
SuggestionWith(card) == CHOOSE s \in SuggestionInputs : card \in Range(s)

\* direct reveals, as handleRevealCommand builds them, and one that names nothing
RevealInputs ==
    {TurnResolvedEvent(GameEventName, <<>>, h, c) : h \in {"P2", "P3"}, c \in Cards}
    \cup {TurnResolvedEvent(GameEventName, <<>>, h, c) :
            h \in {Me, Stranger}, c \in {"Dagger", "Green"}}
    \cup {TurnResolvedEvent(GameEventName, <<>>, "P2", Bogus),
          TurnResolvedEvent(GameEventName, <<>>, "", "")}

\* turns of this player: nobody disproved, a card was shown, or none was seen
OwnTurnInputs ==
    {TurnResolvedEvent(Me, s, "", "") : s \in SuggestionInputs}
    \cup {TurnResolvedEvent(Me, SuggestionWith(c), d, c) : c \in Cards, d \in {"P2", "P3"}}
    \cup {TurnResolvedEvent(Me, SuggestionWith("Dagger"), "P2", "")}

\* turns of another player: disproved by a third party (or by a name that is no
\* player), by this player, or by nobody
OtherTurnInputs ==
    {TurnResolvedEvent("P2", s, "P3", "") : s \in SuggestionInputs}
    \cup {TurnResolvedEvent("P3", s, "P2", "") : s \in SuggestionInputs}
    \cup {TurnResolvedEvent("P2", SuggestionWith(c), Stranger, "") : c \in {"Green", Bogus}}
    \cup {TurnResolvedEvent("P2", SuggestionWith("Dagger"), d, "") : d \in {"", Me}}

\* the records given to HandleEvent
EventInputs == RevealInputs \cup OwnTurnInputs \cup OtherTurnInputs

\* some (card, location) that was Yes before the call and is not after it
Revoked(before, after) ==
    \E card \in DOMAIN before.knowledge : \E loc \in DOMAIN before.knowledge[card] :
        /\ before.knowledge[card][loc] = StatusYes
        /\ KnowledgeAt(after, card, loc) # StatusYes

NoCall == [op |-> "Setup", branch |-> "", ret |-> <<>>, passes |-> 0,
           settled |-> TRUE, removed |-> {}, revoked |-> FALSE]

\* no simulation is running
NoGame == [Players |-> <<>>, Solution |-> <<>>, turn |-> 0,
           winner |-> "", isCorrect |-> FALSE, over |-> FALSE]

Init ==
    /\ brains = [n \in {Me} |-> Setup(SmallConfig, PlayerNames, Me, "random")]
    /\ game = NoGame
    /\ last = NoCall
    /\ nops = 0

ReceiveHandCall ==
    /\ nops < MaxOps
    /\ \E cards \in HandInputs :
          LET r == ReceiveHand(brains[Me], cards)
          IN  /\ brains' = [brains EXCEPT ![Me] = r.ai]
              /\ last' = [op |-> "ReceiveHand", branch |-> "", ret |-> <<>>,
                          passes |-> r.passes, settled |-> r.settled,
                          removed |-> r.removed, revoked |-> Revoked(brains[Me], r.ai)]
    /\ nops' = nops + 1
    /\ UNCHANGED game

HandleEventCall ==
    /\ nops < MaxOps
    /\ \E event \in EventInputs :
          LET r == ProcessTurnEvent(brains[Me], event)
          IN  /\ brains' = [brains EXCEPT ![Me] = r.ai]
              /\ last' = [op |-> "HandleEvent", branch |-> EventBranch(brains[Me], event),
                          ret |-> <<>>,
                          passes |-> r.passes, settled |-> r.settled,
                          removed |-> r.removed, revoked |-> Revoked(brains[Me], r.ai)]
    /\ nops' = nops + 1
    /\ UNCHANGED game

ShouldAccuseCall ==
    /\ nops < MaxOps
    /\ last' = [NoCall EXCEPT !.op = "ShouldAccuse", !.ret = ShouldAccuse(brains[Me])]
    /\ nops' = nops + 1
    /\ UNCHANGED <<brains, game>>

Next ==
    \/ ReceiveHandCall
    \/ HandleEventCall
    \/ ShouldAccuseCall

Spec == Init /\ [][Next]_vars

-----------------------------------------------------------------------------
(* A chain of observed turns: each names two cards of a chain and a room *)

\* the cards of the chain: suspects and weapons of ChainConfig in turn
ChainCard(j) ==
    IF j % 2 = 1 THEN ChainConfig.Suspects[(j + 1) \div 2] ELSE ChainConfig.Weapons[j \div 2]

\* the suggestion of the k-th observed turn: ChainCard(k), ChainCard(k + 1) and
\* the first room
ChainSuggestion(k) ==
    IF k % 2 = 1 THEN Suggestion(ChainCard(k), ChainCard(k + 1), ChainConfig.Rooms[1])
    ELSE Suggestion(ChainCard(k + 1), ChainCard(k), ChainConfig.Rooms[1])

\* the other one of the two players that are not this player
Opponent(p) == IF p = "P2" THEN "P3" ELSE "P2"

ChainInit ==
    /\ brains = [n \in {Me} |-> Setup(ChainConfig, PlayerNames, Me, "random")]
    /\ game = NoGame
    /\ last = NoCall
    /\ nops = 0

\* ReceiveHand, before the first turn, with one of the rooms or nothing
ChainHand ==
    /\ nops = 0
    /\ last.op = "Setup"
    /\ \E cards \in {<<>>, <<ChainConfig.Rooms[1]>>, <<ChainConfig.Rooms[2]>>} :
          LET r == ReceiveHand(brains[Me], cards)
          IN  /\ brains' = [brains EXCEPT ![Me] = r.ai]
              /\ last' = [op |-> "ReceiveHand", branch |-> "", ret |-> <<>>,
                          passes |-> r.passes, settled |-> r.settled,
                          removed |-> r.removed, revoked |-> Revoked(brains[Me], r.ai)]
    /\ UNCHANGED <<game, nops>>

\* HandleEvent with the next observed turn of the chain: one of the other two
\* players suggested and the other one disproved.  The observed turns come
\* before the turns of this player.
ChainLink ==
    /\ nops < MaxLinks
    /\ last.branch # "shown"
    /\ \E disprover \in {"P2", "P3"} :
          LET event == TurnResolvedEvent(Opponent(disprover), ChainSuggestion(nops + 1),
                                         disprover, "")
              r     == ProcessTurnEvent(brains[Me], event)
          IN  /\ brains' = [brains EXCEPT ![Me] = r.ai]
              /\ last' = [op |-> "HandleEvent", branch |-> EventBranch(brains[Me], event),
                          ret |-> <<>>,
                          passes |-> r.passes, settled |-> r.settled,
                          removed |-> r.removed, revoked |-> Revoked(brains[Me], r.ai)]
    /\ nops' = nops + 1
    /\ UNCHANGED game

\* HandleEvent with the one turn of this player, in which the last card of the
\* chain was shown to it
ChainShown ==
    /\ nops >= 1
    /\ last.branch # "shown"
    /\ \E holder \in {"P2", "P3"} :
          LET event == TurnResolvedEvent(Me, ChainSuggestion(nops + 1), holder,
                                         ChainCard(nops + 1))
              r     == ProcessTurnEvent(brains[Me], event)
          IN  /\ brains' = [brains EXCEPT ![Me] = r.ai]
              /\ last' = [op |-> "HandleEvent", branch |-> EventBranch(brains[Me], event),
                          ret |-> <<>>,
                          passes |-> r.passes, settled |-> r.settled,
                          removed |-> r.removed, revoked |-> Revoked(brains[Me], r.ai)]
    /\ UNCHANGED <<game, nops>>

ChainNext ==
    \/ ChainHand
    \/ ChainLink
    \/ ChainShown

ChainSpec == ChainInit /\ [][ChainNext]_vars

-----------------------------------------------------------------------------
(* The elimination rules on grids written cell by cell, as the tests of the *)
(* brain write them                                                          *)

\* the cells the tests set: every location of the weapons, and the solution
\* cell of the suspects
GridCells ==
    {<<c, loc>> : c \in Range(SmallConfig.Weapons), loc \in Range(PlayerNames) \cup {SolutionLoc}}
    \cup {<<c, SolutionLoc>> : c \in Range(SmallConfig.Suspects)}

GridInit ==
    /\ brains = [n \in {Me} |-> Setup(SmallConfig, PlayerNames, Me, "random")]
    /\ game = NoGame
    /\ last = NoCall
    /\ nops = 0

\* brain.knowledge[card][loc] = StatusNo, written by a test
GridWrite ==
    /\ nops < MaxWrites
    /\ \E cell \in GridCells :
          brains' = [brains EXCEPT ![Me].knowledge[cell[1]][cell[2]] = StatusNo]
    /\ last' = [NoCall EXCEPT !.op = "Write"]
    /\ nops' = nops + 1
    /\ UNCHANGED game

\* a call of _markCardLocation by a test
GridMark ==
    /\ nops < MaxWrites
    /\ \E cell \in GridCells :
          LET m == MarkCardLocation(brains[Me], cell[1], cell[2])
          IN  /\ brains' = [brains EXCEPT ![Me] = m.ai]
              /\ last' = [NoCall EXCEPT !.op = "Mark", !.ret = m.changed]
    /\ nops' = nops + 1
    /\ UNCHANGED game

\* a call of _deduceSolutionByElimination
GridDeduceSolution ==
    /\ LET r == DeduceSolutionByElimination(brains[Me])
       IN  /\ brains' = [brains EXCEPT ![Me] = r.ai]
           /\ last' = [NoCall EXCEPT !.op = "DeduceSolution", !.ret = r.changed]
    /\ UNCHANGED <<game, nops>>

\* a call of _deduceCardLocationsByElimination
GridDeduceLocations ==
    /\ LET r == DeduceCardLocationsByElimination(brains[Me])
       IN  /\ brains' = [brains EXCEPT ![Me] = r.ai]
           /\ last' = [NoCall EXCEPT !.op = "DeduceLocations", !.ret = r.changed]
    /\ UNCHANGED <<game, nops>>

GridNext ==
    \/ GridWrite
    \/ GridMark
    \/ GridDeduceSolution
    \/ GridDeduceLocations

GridSpec == GridInit /\ [][GridNext]_vars

-----------------------------------------------------------------------------
(* One brain that observes the turns of the others and is asked for          *)
(* suggestions, as a player of the detective mode is                          *)

StrikeInit ==
    /\ brains = [n \in {Me} |-> Setup(SmallConfig, PlayerNames, Me, "random")]
    /\ game = NoGame
    /\ last = NoCall
    /\ nops = 0

\* ReceiveHand, before the first turn, with one card or nothing
StrikeHand ==
    /\ nops = 0
    /\ last.op = "Setup"
    /\ \E cards \in {<<>>, <<"Green">>, <<"Rope">>} :
          LET r == ReceiveHand(brains[Me], cards)
          IN  /\ brains' = [brains EXCEPT ![Me] = r.ai]
              /\ last' = [op |-> "ReceiveHand", branch |-> "", ret |-> <<>>,
                          passes |-> r.passes, settled |-> r.settled,
                          removed |-> r.removed, revoked |-> Revoked(brains[Me], r.ai)]
    /\ UNCHANGED <<game, nops>>

\* HandleEvent with a turn of P2 that P3 disproved
StrikeEvent ==
    /\ nops < MaxStrikes
    /\ \E suggestion \in SuggestionInputs :
          LET event == TurnResolvedEvent("P2", suggestion, "P3", "")
              r     == ProcessTurnEvent(brains[Me], event)
          IN  /\ brains' = [brains EXCEPT ![Me] = r.ai]
              /\ last' = [op |-> "HandleEvent", branch |-> EventBranch(brains[Me], event),
                          ret |-> <<>>,
                          passes |-> r.passes, settled |-> r.settled,
                          removed |-> r.removed, revoked |-> Revoked(brains[Me], r.ai)]
    /\ nops' = nops + 1
    /\ UNCHANGED game

\* MakeSuggestion
StrikeSuggest ==
    /\ nops < MaxStrikes
    /\ \E made \in MakeSuggestion(brains[Me]) :
          /\ brains' = [brains EXCEPT ![Me] = made.ai]
          /\ last' = [NoCall EXCEPT !.op = "MakeSuggestion", !.branch = made.strategy,
                                    !.ret = made.suggestion]
    /\ nops' = nops + 1
    /\ UNCHANGED game

StrikeNext ==
    \/ StrikeHand
    \/ StrikeEvent
    \/ StrikeSuggest

StrikeSpec == StrikeInit /\ [][StrikeNext]_vars

-----------------------------------------------------------------------------
(* One brain that is given cards and records, and whose unknown-card picker  *)
(* is called                                                                  *)

PickInit ==
    /\ brains = [n \in {Me} |-> Setup(SmallConfig, PlayerNames, Me, "random")]
    /\ game = NoGame
    /\ last = NoCall
    /\ nops = 0

\* ReceiveHand with one card, or with both rooms
PickHand ==
    /\ nops < MaxPicks
    /\ \E cards \in {<<"Green">>, <<"Rope">>, <<"Hall">>, <<"Hall", "Study">>} :
          LET r == ReceiveHand(brains[Me], cards)
          IN  /\ brains' = [brains EXCEPT ![Me] = r.ai]
              /\ last' = [op |-> "ReceiveHand", branch |-> "", ret |-> <<>>,
                          passes |-> r.passes, settled |-> r.settled,
                          removed |-> r.removed, revoked |-> Revoked(brains[Me], r.ai)]
    /\ nops' = nops + 1
    /\ UNCHANGED game

\* HandleEvent with a card revealed at P2, or with a suggestion of this player
\* that nobody disproved
PickEvent ==
    /\ nops < MaxPicks
    /\ \E event \in {TurnResolvedEvent(GameEventName, <<>>, "P2", c) : c \in Cards}
                     \cup {TurnResolvedEvent(Me, s, "", "") : s \in SuggestionInputs} :
          LET r == ProcessTurnEvent(brains[Me], event)
          IN  /\ brains' = [brains EXCEPT ![Me] = r.ai]
              /\ last' = [op |-> "HandleEvent", branch |-> EventBranch(brains[Me], event),
                          ret |-> <<>>,
                          passes |-> r.passes, settled |-> r.settled,
                          removed |-> r.removed, revoked |-> Revoked(brains[Me], r.ai)]
    /\ nops' = nops + 1
    /\ UNCHANGED game

\* _pickUnknownCard(cat)
PickCall ==
    /\ \E cat \in Range(categories) : \E card \in PickUnknownCard(brains[Me], cat) :
          last' = [NoCall EXCEPT !.op = "PickUnknownCard", !.ret = <<cat, card>>]
    /\ UNCHANGED <<brains, game, nops>>

PickNext ==
    \/ PickHand
    \/ PickEvent
    \/ PickCall

PickSpec == PickInit /\ [][PickNext]_vars

-----------------------------------------------------------------------------
(* One brain built with either chooser, as the builder and the tests build   *)
(* it, that is asked for cards to show and for suggestions                    *)

ChooserInit ==
    /\ \E chooser \in {"random", "deterministic"} :
          brains = [n \in {Me} |-> Setup(SmallConfig, PlayerNames, Me, chooser)]
    /\ game = NoGame
    /\ last = NoCall
    /\ nops = 0

\* ReceiveHand with one card, two cards or three
ChooserHand ==
    /\ nops < MaxChoices
    /\ \E cards \in {<<"Green">>, <<"Rope", "Study">>, <<"Dagger", "Green", "Hall">>} :
          LET r == ReceiveHand(brains[Me], cards)
          IN  /\ brains' = [brains EXCEPT ![Me] = r.ai]
              /\ last' = [op |-> "ReceiveHand", branch |-> "", ret |-> <<>>,
                          passes |-> r.passes, settled |-> r.settled,
                          removed |-> r.removed, revoked |-> Revoked(brains[Me], r.ai)]
    /\ nops' = nops + 1
    /\ UNCHANGED game

\* HandleEvent with a turn of P2 that P3 disproved
ChooserEvent ==
    /\ nops < MaxChoices
    /\ \E suggestion \in SuggestionInputs :
          LET event == TurnResolvedEvent("P2", suggestion, "P3", "")
              r     == ProcessTurnEvent(brains[Me], event)
          IN  /\ brains' = [brains EXCEPT ![Me] = r.ai]
              /\ last' = [op |-> "HandleEvent", branch |-> EventBranch(brains[Me], event),
                          ret |-> <<>>,
                          passes |-> r.passes, settled |-> r.settled,
                          removed |-> r.removed, revoked |-> Revoked(brains[Me], r.ai)]
    /\ nops' = nops + 1
    /\ UNCHANGED game

\* ChooseCardToShow(suggestion)
ChooserShow ==
    /\ \E suggestion \in SuggestionInputs :
          \E card \in ChooseCardToShow(brains[Me], suggestion) :
             last' = [NoCall EXCEPT !.op = "ChooseCardToShow", !.ret = <<suggestion, card>>]
    /\ UNCHANGED <<brains, game, nops>>

\* MakeSuggestion
ChooserSuggest ==
    /\ nops < MaxChoices
    /\ \E made \in MakeSuggestion(brains[Me]) :
          /\ brains' = [brains EXCEPT ![Me] = made.ai]
          /\ last' = [NoCall EXCEPT !.op = "MakeSuggestion", !.branch = made.strategy,
                                    !.ret = made.suggestion]
    /\ nops' = nops + 1
    /\ UNCHANGED game

\* ShouldAccuse
ChooserAccuse ==
    /\ last' = [NoCall EXCEPT !.op = "ShouldAccuse", !.ret = ShouldAccuse(brains[Me])]
    /\ UNCHANGED <<brains, game, nops>>

ChooserNext ==
    \/ ChooserHand
    \/ ChooserEvent
    \/ ChooserShow
    \/ ChooserSuggest
    \/ ChooserAccuse

ChooserSpec == ChooserInit /\ [][ChooserNext]_vars

-----------------------------------------------------------------------------
(* A simulation: GameBuilder.Build and Game.RunSimulation with AI players *)

\* the orders rand.Shuffle can give the first n suspects
Shuffles(list) ==
    {p \in [1..Len(list) -> Range(list)] : \A i, j \in 1..Len(list) : i # j => p[i] # p[j]}

\* the shuffled decks: deal reads no more of a deck than which card of each
\* category comes last, so there is one deck for each choice of these cards
Decks(cfg) ==
    {SortStrings(Range(cfg.AllCards) \ {s, w, r}) \o <<s, w, r>> :
        s \in Range(cfg.Suspects), w \in Range(cfg.Weapons), r \in Range(cfg.Rooms)}

\* Build: the players, the first numHumans of them human and the others
\* brains, set up and dealt their hands
Build(cfg, playerNames, deck, numHumans) ==
    LET n        == Len(playerNames)
        shuffled == [cfg EXCEPT !.Suspects = playerNames \o SubSeq(@, n + 1, Len(@))]
        dealt    == Deal(shuffled, n, deck)
    IN  [brains |-> [name \in Range(playerNames) |->
                       LET p == CHOOSE i \in 1..n : playerNames[i] = name
                       IN  IF p <= numHumans
                           THEN HumanReceiveHand(HumanSetup(shuffled, name), dealt.hands[p])
                           ELSE ReceiveHand(Setup(shuffled, playerNames, name, "random"),
                                            dealt.hands[p]).ai],
         game   |-> [Players |-> playerNames, Solution |-> dealt.Solution, turn |-> 0,
                     winner |-> "", isCorrect |-> FALSE, over |-> FALSE]]

SimInit ==
    /\ \E n \in {2, 3} :
          \E playerNames \in Shuffles(SubSeq(SmallConfig.Suspects, 1, n)) :
             \E deck \in Decks(SmallConfig) :
                LET b == Build(SmallConfig, playerNames, deck, 0)
                IN  brains = b.brains /\ game = b.game
    /\ last = NoCall
    /\ nops = 0

\* the first player, whatever the turn
CurrentPlayerAlwaysFirst == game.Players[1]

\* the player whose turn it is
CurrentPlayer == game.Players[(game.turn % Len(game.Players)) + 1]

\* one turn of RunSimulation in which the current player accuses
SimAccuse ==
    /\ ~game.over
    /\ game.turn < TurnLimit
    /\ ShouldAccuse(brains[CurrentPlayer]) # NilSuggestion
    /\ game' = [game EXCEPT !.over = TRUE, !.winner = CurrentPlayer,
                             !.isCorrect = CheckAccusation(game.Solution,
                                                           ShouldAccuse(brains[CurrentPlayer]))]
    /\ UNCHANGED <<brains, last, nops>>

\* AdvancedAIBrain.HandleEvent: of the events published it processes the
\* TurnResolvedEvent only
HandleEvent(ai, kind, event) ==
    IF kind = "TurnResolvedEvent" THEN ProcessTurnEvent(ai, event).ai ELSE ai

\* HumanPlayer.HandleEvent has an empty body
HumanHandleEvent(h, kind, event) == h

\* Player.HandleEvent
PlayerHandleEvent(p, kind, event) ==
    IF IsHuman(p) THEN HumanHandleEvent(p, kind, event) ELSE HandleEvent(p, kind, event)

\* Manager.Publish: every subscribed player handles the event
Publish(bs, kind, event) == [name \in DOMAIN bs |-> PlayerHandleEvent(bs[name], kind, event)]

\* the DisprovalEvent or NoDisprovalEvent of a turn, which names the card shown
DisprovalEvent(suggester, shown) ==
    IF shown[1] # ""
    THEN [kind |-> "DisprovalEvent",
          event |-> [SuggesterName |-> suggester, DisproverName |-> shown[1],
                     RevealedCard |-> shown[2]]]
    ELSE [kind |-> "NoDisprovalEvent", event |-> <<>>]

\* the logicEvent of a turn with the card shown given to every player
LogicEventToAll(name, suggester, suggestion, shown) ==
    TurnResolvedEvent(suggester, suggestion, shown[1], shown[2])

\* the logicEvent RunSimulation builds for the player: the card shown is in
\* it for the suggester only
LogicEvent(name, suggester, suggestion, shown) ==
    TurnResolvedEvent(suggester, suggestion, shown[1],
                      IF name = suggester THEN shown[2] ELSE "")

\* the brains after RunSimulation has published the outcome of a suggestion
\* and has given every player its logicEvent
ResolveTurn(bs, suggester, suggestion, shown) ==
    LET told == Publish(bs, DisprovalEvent(suggester, shown).kind,
                        DisprovalEvent(suggester, shown).event)
    IN  [name \in DOMAIN told |->
            PlayerHandleEvent(told[name], "TurnResolvedEvent",
                              LogicEvent(name, suggester, suggestion, shown))]

\* one turn of RunSimulation in which the current player suggests, the others
\* are asked in turn for a card, and every player is told the outcome
SimSuggest ==
    /\ ~game.over
    /\ game.turn < TurnLimit
    /\ ShouldAccuse(brains[CurrentPlayer]) = NilSuggestion
    /\ \E made \in MakeSuggestion(brains[CurrentPlayer]) :
          LET bs == Publish([brains EXCEPT ![CurrentPlayer] = made.ai],
                            "SuggestionMadeEvent",
                            [PlayerName |-> CurrentPlayer, Suggestion |-> made.suggestion])
          IN  \E shown \in HandleSuggestion(game.Players, bs,
                                             (game.turn % Len(game.Players)) + 1,
                                             made.suggestion) :
                 /\ brains' = ResolveTurn(bs, CurrentPlayer, made.suggestion, shown)
                 /\ last' = [NoCall EXCEPT !.op = "MakeSuggestion",
                                           !.branch = made.strategy,
                                           !.ret = made.suggestion]
    /\ game' = [game EXCEPT !.turn = @ + 1]
    /\ UNCHANGED nops

SimNext ==
    \/ SimAccuse
    \/ SimSuggest

SimSpec == SimInit /\ [][SimNext]_vars

-----------------------------------------------------------------------------
(* internal/game: RunSimulation with human players and brains, to its end *)

\* the players of the games
MaxSeats == 2

\* Player.ShouldAccuse: a human player returns nil
PlayerShouldAccuse(p) == IF IsHuman(p) THEN NilSuggestion ELSE ShouldAccuse(p)

\* Player.MakeSuggestion: a human player returns nil
PlayerMakeSuggestion(p) ==
    IF IsHuman(p) THEN {[ai |-> p, suggestion |-> NilSuggestion, strategy |-> ""]}
    ELSE MakeSuggestion(p)

\* what one pass of the loop of RunSimulation did, in order: the events it
\* published and the calls it made
Ran(branch, trace) == [NoCall EXCEPT !.op = "RunSimulation", !.branch = branch, !.ret = trace]

RunInit ==
    /\ \E totalPlayers \in 2..MaxSeats : \E numHumans \in 0..totalPlayers :
          \E playerNames \in Shuffles(SubSeq(SmallConfig.Suspects, 1, totalPlayers)) :
             \E deck \in Decks(SmallConfig) :
                LET b == Build(SmallConfig, playerNames, deck, numHumans)
                IN  brains = b.brains /\ game = b.game
    /\ last = NoCall
    /\ nops = 0

\* a pass of the loop in which the current player accuses: RunSimulation
\* publishes the GameOverEvent and returns
RunAccuse ==
    /\ ~game.over
    /\ game.turn < TurnLimit
    /\ PlayerShouldAccuse(brains[CurrentPlayer]) # NilSuggestion
    /\ game' = [game EXCEPT !.over = TRUE, !.winner = CurrentPlayer,
                             !.isCorrect = CheckAccusation(game.Solution,
                                               PlayerShouldAccuse(brains[CurrentPlayer]))]
    /\ last' = Ran("accusation", <<"TurnStartEvent", "ShouldAccuse", "GameOverEvent">>)
    /\ UNCHANGED <<brains, nops>>

\* a pass of the loop in which the current player suggests
RunSuggest ==
    /\ ~game.over
    /\ game.turn < TurnLimit
    /\ PlayerShouldAccuse(brains[CurrentPlayer]) = NilSuggestion
    /\ \E made \in PlayerMakeSuggestion(brains[CurrentPlayer]) :
          LET bs == Publish([brains EXCEPT ![CurrentPlayer] = made.ai],
                            "SuggestionMadeEvent",
                            [PlayerName |-> CurrentPlayer, Suggestion |-> made.suggestion])
          IN  \E shown \in HandleSuggestion(game.Players, bs,
                                             (game.turn % Len(game.Players)) + 1,
                                             made.suggestion) :
                 /\ brains' = ResolveTurn(bs, CurrentPlayer, made.suggestion, shown)
                 /\ last' = Ran("suggestion",
                                <<"TurnStartEvent", "ShouldAccuse", "MakeSuggestion",
                                  "SuggestionMadeEvent", "ChooseCardToShow",
                                  DisprovalEvent(CurrentPlayer, shown).kind,
                                  "TurnResolvedEvent">>)
    /\ game' = [game EXCEPT !.turn = @ + 1]
    /\ UNCHANGED nops

\* the loop has ended on the turn limit: RunSimulation publishes a
\* GameOverEvent without a winner and returns "", false
RunLimit ==
    /\ ~game.over
    /\ game.turn >= TurnLimit
    /\ game' = [game EXCEPT !.over = TRUE, !.winner = "", !.isCorrect = FALSE]
    /\ last' = Ran("limit", <<"GameOverEvent">>)
    /\ UNCHANGED <<brains, nops>>

RunNext ==
    \/ RunAccuse
    \/ RunSuggest
    \/ RunLimit

RunSpec == RunInit /\ [][RunNext]_vars

-----------------------------------------------------------------------------
(* internal/game: the loop of RunSimulation over the Player interface, the   *)
(* answers of the players being inputs                                        *)

\* the accusations a player can return from ShouldAccuse
Accusations ==
    {Suggestion(s, w, r) : s \in Range(SmallConfig.Suspects),
                           w \in Range(SmallConfig.Weapons), r \in Range(SmallConfig.Rooms)}

LoopInit ==
    /\ brains = <<>>
    /\ \E totalPlayers \in 2..Len(SmallConfig.Suspects) :
          game = [NoGame EXCEPT !.Players = SubSeq(SmallConfig.Suspects, 1, totalPlayers),
                                !.Solution = Suggestion("Green", "Rope", "Hall")]
    /\ last = NoCall
    /\ nops = 0

\* a pass of the loop in which ShouldAccuse returns an accusation
LoopAccuse ==
    /\ ~game.over
    /\ game.turn < TurnLimit
    /\ \E accusation \in Accusations :
          game' = [game EXCEPT !.over = TRUE, !.winner = CurrentPlayer,
                               !.isCorrect = CheckAccusation(game.Solution, accusation)]
    /\ last' = Ran("accusation", <<"TurnStartEvent", "ShouldAccuse", "GameOverEvent">>)
    /\ UNCHANGED <<brains, nops>>

\* a pass of the loop that leaves the turn counter as it is
LoopSuggestStalling ==
    /\ ~game.over
    /\ game.turn < TurnLimit
    /\ \E disproved \in BOOLEAN :
          last' = Ran("suggestion",
                      <<"TurnStartEvent", "ShouldAccuse", "MakeSuggestion",
                        "SuggestionMadeEvent", "ChooseCardToShow",
                        IF disproved THEN "DisprovalEvent" ELSE "NoDisprovalEvent",
                        "TurnResolvedEvent">>)
    /\ UNCHANGED <<brains, game, nops>>

\* a pass of the loop in which ShouldAccuse returns nil: a suggestion is made,
\* disproved or not, and the turn counter goes up
LoopSuggest ==
    /\ ~game.over
    /\ game.turn < TurnLimit
    /\ \E disproved \in BOOLEAN :
          last' = Ran("suggestion",
                      <<"TurnStartEvent", "ShouldAccuse", "MakeSuggestion",
                        "SuggestionMadeEvent", "ChooseCardToShow",
                        IF disproved THEN "DisprovalEvent" ELSE "NoDisprovalEvent",
                        "TurnResolvedEvent">>)
    /\ game' = [game EXCEPT !.turn = @ + 1]
    /\ UNCHANGED <<brains, nops>>

LoopNext ==
    \/ LoopAccuse
    \/ LoopSuggest
    \/ RunLimit

LoopSpec == LoopInit /\ [][LoopNext]_vars

\* RunSimulation is a loop of one goroutine: it goes on while it can
LoopLiveSpec == LoopSpec /\ WF_vars(LoopNext)

-----------------------------------------------------------------------------
(* internal/game: the deal of Build over every shuffle of the deck *)

RECURSIVE ShuffledDecks(_)
\* the orders rand.Shuffle can leave the cards in
ShuffledDecks(cards) ==
    IF cards = {} THEN {<<>>}
    ELSE UNION {{<<card>> \o rest : rest \in ShuffledDecks(cards \ {card})} : card \in cards}

\* before Build there are no players and no solution
DealInit ==
    /\ brains = <<>>
    /\ game = NoGame
    /\ last = NoCall
    /\ nops = 0

\* Build with totalPlayers players: the names are shuffled, each brain is set
\* up, and deal shuffles the deck, sets the solution and hands out the rest
DealBuild ==
    /\ nops = 0
    /\ \E totalPlayers \in 2..Len(SmallConfig.Suspects) :
          \E playerNames \in Shuffles(SubSeq(SmallConfig.Suspects, 1, totalPlayers)) :
             \E deck \in ShuffledDecks(Range(SmallConfig.AllCards)) :
                LET b == Build(SmallConfig, playerNames, deck, 0)
                IN  /\ brains' = b.brains
                    /\ game' = b.game
                    /\ last' = [NoCall EXCEPT !.op = "deal", !.ret = deck]
    /\ nops' = 1

DealNext == DealBuild

DealSpec == DealInit /\ [][DealNext]_vars

-----------------------------------------------------------------------------
(* internal/ai: a caller writing into the values the getters return *)

\* the calls a caller makes between two reads of the brain
MaxAccesses == 2

\* Config returns the pointer the brain holds
Config(ai) == ai.config

\* Players returns the slice the brain holds
Players(ai) == ai.players

\* Knowledge returns the map the brain holds
Knowledge(ai) == ai.knowledge

\* Hand builds a new sorted slice of the cards of the hand
Hand(ai) == SortStrings(ai.hand)

\* whether the value a getter returns is the storage of the brain itself (a
\* pointer, a slice or a map returned as it is) or storage of its own
SharesStorage(getter) == getter \in {"Config", "Players", "Knowledge"}

\* the field of the brain after a caller wrote to the value of the getter: the
\* written value when the storage is shared, the field as it was when not
AfterWrite(getter, field, written) == IF SharesStorage(getter) THEN written ELSE field

AccessInit ==
    /\ brains = [n \in {Me} |-> Setup(SmallConfig, PlayerNames, Me, "random")]
    /\ game = NoGame
    /\ last = NoCall
    /\ nops = 0

AccessReceiveHand ==
    /\ nops = 0
    /\ \E cards \in {<<"Green">>, <<"Dagger", "Hall">>} :
          brains' = [brains EXCEPT ![Me] = ReceiveHand(@, cards).ai]
    /\ last' = [NoCall EXCEPT !.op = "ReceiveHand"]
    /\ UNCHANGED <<game, nops>>

\* a caller sets a cell of the map Knowledge returned
AccessKnowledge ==
    /\ nops < MaxAccesses
    /\ \E card \in Cards, loc \in Range(PlayerNames) \cup {SolutionLoc},
          status \in {StatusMaybe, StatusYes, StatusNo} :
          LET written == [Knowledge(brains[Me]) EXCEPT ![card][loc] = status]
          IN  /\ brains' = [brains EXCEPT ![Me].knowledge =
                                AfterWrite("Knowledge", @, written)]
              /\ last' = [NoCall EXCEPT !.op = "Knowledge", !.ret = written]
    /\ nops' = nops + 1
    /\ UNCHANGED game

\* a caller sets an element of the slice Players returned
AccessPlayers ==
    /\ nops < MaxAccesses
    /\ \E i \in 1..Len(Players(brains[Me])), name \in {"P2", Stranger} :
          LET written == [Players(brains[Me]) EXCEPT ![i] = name]
          IN  /\ brains' = [brains EXCEPT ![Me].players =
                                AfterWrite("Players", @, written)]
              /\ last' = [NoCall EXCEPT !.op = "Players", !.ret = written]
    /\ nops' = nops + 1
    /\ UNCHANGED game

\* a caller sets the category of a card in the catalog Config returned
AccessConfig ==
    /\ nops < MaxAccesses
    /\ \E card \in Cards, cat \in Range(categories) :
          LET written == [Config(brains[Me]) EXCEPT !.CardToType[card] = cat]
          IN  /\ brains' = [brains EXCEPT ![Me].config =
                                AfterWrite("Config", @, written)]
              /\ last' = [NoCall EXCEPT !.op = "Config", !.ret = written]
    /\ nops' = nops + 1
    /\ UNCHANGED game

\* a caller sets an element of the slice Hand returned
AccessHand ==
    /\ nops < MaxAccesses
    /\ \E i \in 1..Len(Hand(brains[Me])), card \in {"Rope", "Study"} :
          LET written == [Hand(brains[Me]) EXCEPT ![i] = card]
          IN  /\ brains' = [brains EXCEPT ![Me].hand =
                                AfterWrite("Hand", @, Range(written))]
              /\ last' = [NoCall EXCEPT !.op = "Hand", !.ret = written]
    /\ nops' = nops + 1
    /\ UNCHANGED game

AccessNext ==
    \/ AccessReceiveHand
    \/ AccessKnowledge
    \/ AccessPlayers
    \/ AccessConfig
    \/ AccessHand

AccessSpec == AccessInit /\ [][AccessNext]_vars

-----------------------------------------------------------------------------
(* Notions the properties use *)

\* the brain the calls of Spec are made on
Brain == brains[Me]

\* the closed set of locations of a brain: its players and the solution
Closed(ai) == Range(ai.players) \cup {SolutionLoc}

\* the locations at which a grid holds Yes for a card
YesAt(ai, card) == {loc \in DOMAIN ai.knowledge[card] : ai.knowledge[card][loc] = StatusYes}

\* a tracked mystery lists a card that is known No at its disprover
StaleMystery(ai) ==
    \E i \in 1..Len(ai.unresolvedSuggestions) :
        \E card \in ai.unresolvedSuggestions[i].PossibleCards :
            KnowledgeAt(ai, card, ai.unresolvedSuggestions[i].Disprover) = StatusNo

\* solution-by-elimination has a card to mark: a category without a Yes at
\* solution and with exactly one card still Maybe there
SolutionRuleApplies(ai) ==
    \E cat \in Range(categories) :
        LET list == Range(CardListForCategory(ai.config, cat))
        IN  /\ \A c \in list : KnowledgeAt(ai, c, SolutionLoc) # StatusYes
            /\ Cardinality({c \in list : KnowledgeAt(ai, c, SolutionLoc) = StatusMaybe}) = 1

\* location-by-elimination has a card to mark: a card without a Yes in the
\* closed set and with exactly one location of the set still Maybe
LocationRuleApplies(ai) ==
    \E c \in Range(ai.config.AllCards) :
        /\ \A loc \in Closed(ai) : KnowledgeAt(ai, c, loc) # StatusYes
        /\ Cardinality({loc \in Closed(ai) : KnowledgeAt(ai, c, loc) = StatusMaybe}) = 1

-----------------------------------------------------------------------------
(* C1 *)

\* C1: after any sequence of calls, for every card at most one location of
\* the grid holds Yes.
OneYesPerCard ==
    \A card \in DOMAIN Brain.knowledge : Cardinality(YesAt(Brain, card)) <= 1

-----------------------------------------------------------------------------
(* C2 *)

\* C2: a (card, location) that is Yes stays Yes over every call; no call turns
\* a Yes into No or Maybe.
YesStaysYes ==
    [][\A card \in DOMAIN Brain.knowledge : \A loc \in DOMAIN Brain.knowledge[card] :
          Brain.knowledge[card][loc] = StatusYes => KnowledgeAt(Brain', card, loc) = StatusYes]_vars

-----------------------------------------------------------------------------
(* C3 *)

\* C3: when HandleEvent has returned, no tracked mystery lists a card known No
\* at its disprover and neither elimination rule has a card to mark.
ClosedAfterEveryEvent ==
    last.op = "HandleEvent" =>
        /\ ~StaleMystery(Brain)
        /\ ~SolutionRuleApplies(Brain)
        /\ ~LocationRuleApplies(Brain)

-----------------------------------------------------------------------------
(* C4 *)

\* C4, as stated: when a call has run the deduction loop, the loop made at most
\* 10 passes and left a fixed point: run again at once, it changes neither the
\* grid nor the tracked mysteries.
LoopStopsAtFixedPoint ==
    last.passes > 0 =>
        /\ last.passes <= MaxPasses
        /\ RunDeductionLoop(Brain).ai = Brain

\* C4, amended: the loop makes at most 10 passes, and when it stopped because a
\* pass changed nothing it left a fixed point: run again at once, it makes one
\* pass and changes neither the grid nor the tracked mysteries.
LoopStopsAtFixedPointUnlessCapped ==
    /\ last.passes <= MaxPasses
    /\ last.passes > 0 /\ last.settled =>
          /\ RunDeductionLoop(Brain).ai = Brain
          /\ RunDeductionLoop(Brain).passes = 1

\* a call whose loop needed all of its 10 passes and stopped at a fixed point
TenPassesAndSettled == last.passes = MaxPasses /\ last.settled

-----------------------------------------------------------------------------
(* C5 *)

\* C5: when RunSimulation has returned a winner, the accusation was correct.
EveryAccusationIsCorrect == game.winner # "" => game.isCorrect

\* a player has accused after the players had made suggestions
AccusedAfterSuggestions == game.over /\ game.winner # "" /\ game.turn >= 2

-----------------------------------------------------------------------------
(* C6 *)

\* every category has a card that is Yes at solution
AllCategoriesKnown(ai) ==
    \A cat \in Range(categories) :
        \E c \in Range(CardListForCategory(ai.config, cat)) :
            KnowledgeAt(ai, c, SolutionLoc) = StatusYes

\* C6: ShouldAccuse returns a suggestion exactly when every category has a card
\* that is Yes at solution, and then it gives each category such a card of
\* that category; otherwise it returns nil.
AccuseIffAllKnown ==
    last.op = "ShouldAccuse" =>
        /\ (last.ret # NilSuggestion) <=> AllCategoriesKnown(Brain)
        /\ last.ret # NilSuggestion =>
              /\ DOMAIN last.ret = Range(categories)
              /\ \A cat \in Range(categories) :
                    /\ last.ret[cat] \in Range(CardListForCategory(Brain.config, cat))
                    /\ KnowledgeAt(Brain, last.ret[cat], SolutionLoc) = StatusYes

\* ShouldAccuse has returned an accusation
AccusationReturned == last.op = "ShouldAccuse" /\ last.ret # NilSuggestion

-----------------------------------------------------------------------------
(* C7 *)

\* C7: a mystery is removed only when exactly one candidate is left, and that
\* card is then Yes at the disprover; a mystery that stays has two or more.
RemovedOnlyWhenSolved ==
    /\ \A r \in last.removed : r.left = 1 /\ r.yes
    /\ \A i \in 1..Len(Brain.unresolvedSuggestions) :
          Cardinality(Brain.unresolvedSuggestions[i].PossibleCards) # 1

-----------------------------------------------------------------------------
(* C8 *)

\* the brain when the loop of _pruneAndSolveMysteries comes to mystery i: the
\* mysteries before it have been pruned, and solved where one card was left
WhenReached(ai, i) ==
    PruneAndSolveMysteries([ai EXCEPT !.unresolvedSuggestions = SubSeq(@, 1, i - 1)]).ai

\* each mystery of ai with exactly its cards that are not known No at its
\* disprover when the pruning comes to it, those with two or more cards, in order
Pruned(ai) ==
    LET Cut(i) == [ai.unresolvedSuggestions[i] EXCEPT !.PossibleCards =
                     {c \in @ : KnowledgeAt(WhenReached(ai, i), c,
                                            ai.unresolvedSuggestions[i].Disprover) # StatusNo}]
        cut      == [i \in 1..Len(ai.unresolvedSuggestions) |-> Cut(i)]
        Stays(m) == Cardinality(m.PossibleCards) >= 2
    IN  SelectSeq(cut, Stays)

\* the mysteries of after are mysteries of before, in the same order, each with
\* the same disprover and no card it did not have
Embeds(after, before) ==
    \E f \in [1..Len(after) -> 1..Len(before)] :
        /\ \A i, j \in 1..Len(after) : i < j => f[i] < f[j]
        /\ \A i \in 1..Len(after) :
              /\ after[i].Disprover = before[f[i]].Disprover
              /\ after[i].PossibleCards \subseteq before[f[i]].PossibleCards

\* C8: for every call that can be made in a reachable state,
\* _pruneAndSolveMysteries leaves, of each mystery, exactly the cards not known
\* No at its disprover, and keeps the mysteries with two or more cards in their
\* order; over a whole call no mystery gains a card, and an event touches the
\* tracked mysteries only by appending one.
PruneKeepsWhatIsNotNo ==
    nops < MaxOps =>
        /\ \A event \in EventInputs :
              LET before == ApplyEvent(Brain, event)
                  pruned == PruneAndSolveMysteries(before).ai
                  after  == ProcessTurnEvent(Brain, event).ai
              IN  /\ pruned.unresolvedSuggestions = Pruned(before)
                  /\ Embeds(after.unresolvedSuggestions, before.unresolvedSuggestions)
                  /\ \/ before.unresolvedSuggestions = Brain.unresolvedSuggestions
                     \/ /\ EventBranch(Brain, event) = "mystery"
                        /\ Len(before.unresolvedSuggestions) = Len(Brain.unresolvedSuggestions) + 1
                        /\ SubSeq(before.unresolvedSuggestions, 1, Len(Brain.unresolvedSuggestions))
                              = Brain.unresolvedSuggestions
        /\ \A cards \in HandInputs :
              /\ PruneAndSolveMysteries(ReceiveFrom(Brain, cards)).ai.unresolvedSuggestions
                    = Pruned(ReceiveFrom(Brain, cards))
              /\ Embeds(ReceiveHand(Brain, cards).ai.unresolvedSuggestions,
                        Brain.unresolvedSuggestions)

\* two mysteries are tracked, one of them cut from three cards to two
CutMysteryTracked ==
    /\ Len(Brain.unresolvedSuggestions) >= 2
    /\ \E i \in 1..Len(Brain.unresolvedSuggestions) :
          Cardinality(Brain.unresolvedSuggestions[i].PossibleCards) = 2

-----------------------------------------------------------------------------
(* C9 *)

\* C9: from every state, _markCardLocation(c, l) for a card of the catalog and
\* a location of the closed set leaves c Yes at l and No at every other
\* location of the closed set.
MarkSetsYesAndNo ==
    \A c \in Range(Brain.config.AllCards) : \A l \in Closed(Brain) :
        LET after == MarkCardLocation(Brain, c, l).ai
        IN  /\ KnowledgeAt(after, c, l) = StatusYes
            /\ \A other \in Closed(Brain) \ {l} : KnowledgeAt(after, c, other) = StatusNo

\* a direct reveal marked a card that was Yes at another location before
MarkedOverYes == last.op = "HandleEvent" /\ last.branch = "reveal" /\ last.revoked

-----------------------------------------------------------------------------
(* C10 *)

\* C10: _markCardLocation with a card that is not in the catalog reports no
\* change and leaves the brain, and so the grid and its key sets, as it was;
\* so does a direct reveal of such a card.
MarkOfUnknownCardIsNoOp ==
    /\ \A l \in Closed(Brain) \cup {Stranger} :
          MarkCardLocation(Brain, Bogus, l) = [ai |-> Brain, changed |-> FALSE]
    /\ \A event \in RevealInputs :
          event.RevealedCard = Bogus => ProcessTurnEvent(Brain, event).ai = Brain
    /\ Bogus \notin DOMAIN Brain.knowledge

\* ReceiveHand was given the unknown card, and marked it
UnknownCardReceived == last.op = "ReceiveHand" /\ Bogus \in Brain.hand


-----------------------------------------------------------------------------
(* C11 *)

\* the row _markCardLocation leaves for a card marked at a location
MarkedRow(ai, location) ==
    [loc \in Closed(ai) |-> IF loc = location THEN StatusYes ELSE StatusNo]

\* no card of the category of the card is Yes at solution, the card is Maybe
\* there and every other card of the category is No there
SoleMaybeAtSolution(ai, cat, card) ==
    LET list == Range(CardListForCategory(ai.config, cat))
    IN  /\ \A c \in list : KnowledgeAt(ai, c, SolutionLoc) # StatusYes
        /\ KnowledgeAt(ai, card, SolutionLoc) = StatusMaybe
        /\ \A c \in list \ {card} : KnowledgeAt(ai, c, SolutionLoc) = StatusNo

\* C11: _deduceSolutionByElimination marks a card Yes at solution (and No at
\* the players) exactly when no card of its category is Yes at solution and
\* it is the only card of the category that is Maybe there; the row of every
\* other card, and the rest of the brain, stay as they were, and a change is
\* reported exactly when some card was marked.
SolutionRuleMarksSoleMaybe ==
    LET r == DeduceSolutionByElimination(Brain)
    IN  /\ \A cat \in Range(categories) :
              \A card \in Range(CardListForCategory(Brain.config, cat)) :
                 r.ai.knowledge[card] =
                    IF SoleMaybeAtSolution(Brain, cat, card)
                    THEN MarkedRow(Brain, SolutionLoc) ELSE Brain.knowledge[card]
        /\ r.changed <=>
              \E cat \in Range(categories) :
                 \E card \in Range(CardListForCategory(Brain.config, cat)) :
                    SoleMaybeAtSolution(Brain, cat, card)
        /\ r.ai = [Brain EXCEPT !.knowledge = r.ai.knowledge]

\* a call of the rule marked a card, in a grid the writes had prepared
SolutionRuleFired == last.op = "DeduceSolution" /\ last.ret = TRUE

-----------------------------------------------------------------------------
(* C12 *)

\* the card has no Yes at a location of the closed set and exactly one of
\* these locations is Maybe: the location
SoleMaybeLocation(ai, card, location) ==
    /\ \A loc \in Closed(ai) : KnowledgeAt(ai, card, loc) # StatusYes
    /\ {loc \in Closed(ai) : KnowledgeAt(ai, card, loc) = StatusMaybe} = {location}

\* C12: _deduceCardLocationsByElimination marks a card Yes at a location
\* exactly when the card has no Yes and that location is its only Maybe among
\* the players and solution; every other card is left as it was, and a change
\* is reported exactly when some card was marked.
LocationRuleMarksSoleMaybe ==
    LET r == DeduceCardLocationsByElimination(Brain)
    IN  /\ \A card \in Range(Brain.config.AllCards) :
              /\ \A location \in Closed(Brain) :
                    SoleMaybeLocation(Brain, card, location) =>
                        r.ai.knowledge[card] = MarkedRow(Brain, location)
              /\ (\A location \in Closed(Brain) : ~SoleMaybeLocation(Brain, card, location)) =>
                    r.ai.knowledge[card] = Brain.knowledge[card]
        /\ r.changed <=>
              \E card \in Range(Brain.config.AllCards) : \E location \in Closed(Brain) :
                 SoleMaybeLocation(Brain, card, location)
        /\ r.ai = [Brain EXCEPT !.knowledge = r.ai.knowledge]

\* a call of the rule marked a card, in a grid the writes had prepared
LocationRuleFired == last.op = "DeduceLocations" /\ last.ret = TRUE

-----------------------------------------------------------------------------
(* C13 *)

\* the cards of the catalog the suggestion names
SuggestedCards(ai, event) == Range(event.Suggestion) \cap Range(ai.config.AllCards)

\* C13: when HandleEvent returns from a record of this player's own suggestion
\* that names no disprover, every suggested card that is not in the hand is
\* Yes at solution, and every suggested card of the hand has the solution
\* cell it had, which is not Yes.
UndisprovedMarksSolution ==
    nops < MaxOps =>
        \A event \in OwnTurnInputs :
            event.DisproverName = "" =>
                LET after == ProcessTurnEvent(Brain, event).ai
                IN  \A card \in SuggestedCards(Brain, event) :
                       IF card \in Brain.hand
                       THEN /\ KnowledgeAt(after, card, SolutionLoc) # StatusYes
                            /\ KnowledgeAt(after, card, SolutionLoc) =
                                  KnowledgeAt(Brain, card, SolutionLoc)
                       ELSE KnowledgeAt(after, card, SolutionLoc) = StatusYes

\* an undisproved own suggestion was handled, and some suggestion has cards in
\* the hand, none of them Yes at solution, and cards outside it, all of them
\* Yes at solution
UndisprovedWithHandCard ==
    /\ last.op = "HandleEvent" /\ last.branch = "undisproved"
    /\ \E s \in SuggestionInputs :
          LET named == Range(s) \cap Range(Brain.config.AllCards)
          IN  /\ named \cap Brain.hand # {}
              /\ named \ Brain.hand # {}
              /\ \A card \in named \cap Brain.hand :
                    KnowledgeAt(Brain, card, SolutionLoc) = StatusNo
              /\ \A card \in named \ Brain.hand :
                    KnowledgeAt(Brain, card, SolutionLoc) = StatusYes

-----------------------------------------------------------------------------
(* C14 *)

\* the record reveals a card of the catalog at a holder: a direct reveal, or
\* this player's own suggestion disproved with the card shown
RevealsCard(ai, event) ==
    /\ event.DisproverName # "" /\ event.RevealedCard \in Range(ai.config.AllCards)
    /\ event.SuggesterName \in {GameEventName, ai.name}

\* C14: when HandleEvent returns from a record that reveals a card at a
\* holder, the card is Yes at the holder and No at every other location its
\* row of the grid has, whatever the grid said before.
RevealSetsYesAndNo ==
    nops < MaxOps =>
        \A event \in EventInputs :
            RevealsCard(Brain, event) =>
                LET after == ProcessTurnEvent(Brain, event).ai
                    row   == after.knowledge[event.RevealedCard]
                IN  /\ KnowledgeAt(after, event.RevealedCard, event.DisproverName) = StatusYes
                    /\ \A loc \in DOMAIN row \ {event.DisproverName} : row[loc] = StatusNo

-----------------------------------------------------------------------------
(* C15 *)

\* the record is no direct reveal, the suggester is another player, and a
\* disprover is named that is not this player
DisprovedUnseen(ai, event) ==
    /\ event.SuggesterName \notin {GameEventName, ai.name}
    /\ event.DisproverName \notin {"", ai.name}

\* the mystery of a record: its disprover and its suggested cards
MysteryOf(event) ==
    [Disprover |-> event.DisproverName, PossibleCards |-> Range(event.Suggestion)]

\* C15: processTurnEvent appends a mystery exactly when the record is no
\* direct reveal, the suggester is another player and a disprover is named
\* that is not this player; the mystery has the disprover and the suggested
\* cards of the record, and what is tracked when HandleEvent returns descends
\* from the mysteries tracked before and this one; in every other case the
\* tracked mysteries get no new member.
MysteryAddedWhenDisprovedUnseen ==
    nops < MaxOps =>
        \A event \in EventInputs :
            LET before == Brain.unresolvedSuggestions
                noted  == ApplyEvent(Brain, event).unresolvedSuggestions
                after  == ProcessTurnEvent(Brain, event).ai.unresolvedSuggestions
            IN  IF DisprovedUnseen(Brain, event)
                THEN /\ noted = Append(before, MysteryOf(event))
                     /\ Embeds(after, Append(before, MysteryOf(event)))
                ELSE /\ noted = before
                     /\ Embeds(after, before)

\* a third party disproved another player's suggestion, and the mystery of
\* the three suggested cards is the last one tracked
MysteryJustNoted ==
    /\ last.op = "HandleEvent" /\ last.branch = "mystery"
    /\ Len(Brain.unresolvedSuggestions) >= 1
    /\ LET m == Brain.unresolvedSuggestions[Len(Brain.unresolvedSuggestions)]
       IN  /\ m.Disprover \in {"P2", "P3"}
           /\ \E s \in SuggestionInputs : m.PossibleCards = Range(s)

-----------------------------------------------------------------------------
(* C16 *)

\* C16: every candidate of every tracked mystery is a card of the catalog.
CandidatesInCatalog ==
    \A i \in 1..Len(Brain.unresolvedSuggestions) :
        Brain.unresolvedSuggestions[i].PossibleCards \subseteq Range(Brain.config.AllCards)

-----------------------------------------------------------------------------
(* C17 *)

\* the number of categories with a card that is Yes at solution
KnownCount(ai) ==
    Cardinality({cat \in Range(categories) :
                    \E card \in Range(CardListForCategory(ai.config, cat)) :
                        KnowledgeAt(ai, card, SolutionLoc) = StatusYes})

\* the strategy the priority order gives a brain
StrategyFor(ai) ==
    IF KnownCount(ai) \in {1, 2} THEN "Exploit"
    ELSE IF Len(ai.unresolvedSuggestions) >= 1 THEN "SurgicalStrike"
    ELSE "Explore"

\* C17: for the brain of every player of a simulation, every suggestion
\* MakeSuggestion can return comes from Exploit exactly when one or two
\* categories are known, otherwise from Surgical Strike exactly when a mystery
\* is tracked, otherwise from Explore.
StrategyByPriority ==
    \A name \in DOMAIN brains :
        \A made \in MakeSuggestion(brains[name]) : made.strategy = StrategyFor(brains[name])

\* an Exploit suggestion was made, and the player to move knows one or two
\* categories while tracking a mystery
ExploitOverSurgical ==
    /\ last.op = "MakeSuggestion" /\ last.branch = "Exploit"
    /\ ~game.over
    /\ KnownCount(brains[CurrentPlayer]) \in {1, 2}
    /\ Len(brains[CurrentPlayer].unresolvedSuggestions) >= 1

-----------------------------------------------------------------------------
(* C18 *)

\* the suggestion names, for each of the three categories, a card of the
\* catalog of that category
CompleteSuggestion(ai, suggestion) ==
    /\ DOMAIN suggestion = Range(categories)
    /\ \A cat \in Range(categories) :
          suggestion[cat] \in Range(CardListForCategory(ai.config, cat))

\* C18: in every state reachable through Setup, ReceiveHand and HandleEvent,
\* every suggestion MakeSuggestion can return names one card of the catalog
\* for each category, of that category.
SuggestionAlwaysComplete ==
    \A made \in MakeSuggestion(Brain) : CompleteSuggestion(Brain, made.suggestion)

-----------------------------------------------------------------------------
(* C19 *)

\* the candidates of the tracked mysteries
Candidates(ai) ==
    UNION {ai.unresolvedSuggestions[i].PossibleCards : i \in 1..Len(ai.unresolvedSuggestions)}

\* the number of tracked mysteries that list the card
Frequency(ai, card) ==
    Cardinality({i \in 1..Len(ai.unresolvedSuggestions) :
                    card \in ai.unresolvedSuggestions[i].PossibleCards})

\* the target of a result of Surgical Strike: the card it pushed
TargetOf(made) == made.ai.recentSurgicalTargets[Len(made.ai.recentSurgicalTargets)]

\* the candidates outside recentSurgicalTargets, or all of them when there is
\* none outside
Preferred(ai) ==
    IF Candidates(ai) \ Range(ai.recentSurgicalTargets) = {} THEN Candidates(ai)
    ELSE Candidates(ai) \ Range(ai.recentSurgicalTargets)

\* C19: every target Surgical Strike can choose has the highest frequency
\* among the candidates outside recentSurgicalTargets, or among all candidates
\* when none is outside.
TargetHasHighestFrequency ==
    \A made \in SurgicalStrikeStrategy(Brain) :
        \A card \in Preferred(Brain) :
            Frequency(Brain, card) <= Frequency(Brain, TargetOf(made))

-----------------------------------------------------------------------------
(* C20 *)

\* C20: every target Surgical Strike can choose is a candidate, and it is in
\* recentSurgicalTargets only when every candidate is.
TargetAvoidsRecent ==
    \A made \in SurgicalStrikeStrategy(Brain) :
        /\ TargetOf(made) \in Candidates(Brain)
        /\ TargetOf(made) \in Range(Brain.recentSurgicalTargets) =>
              Candidates(Brain) \subseteq Range(Brain.recentSurgicalTargets)

\* Surgical Strike has just targeted a card it had targeted before: the card
\* is twice in recentSurgicalTargets, and every candidate is in it
RecentTargetAgain ==
    /\ last.op = "MakeSuggestion" /\ last.branch = "SurgicalStrike"
    /\ \E i, j \in 1..Len(Brain.recentSurgicalTargets) :
          i < j /\ Brain.recentSurgicalTargets[i] = Brain.recentSurgicalTargets[j]
    /\ Candidates(Brain) \subseteq Range(Brain.recentSurgicalTargets)

-----------------------------------------------------------------------------
(* C21 *)

\* the capacity NewStringDeque is given in Setup
RecentCapacity == 3

\* C21: recentSurgicalTargets never holds more than 3 cards; a Surgical Strike
\* appends its target, a candidate that is in the suggestion it returns, and
\* drops the oldest card when 3 were held; no other call changes the buffer.
RecentTargetsIsFifo ==
    [][LET old == brains[Me].recentSurgicalTargets
           new == brains'[Me].recentSurgicalTargets
       IN  /\ Len(new) <= RecentCapacity
           /\ IF last'.op = "MakeSuggestion" /\ last'.branch = "SurgicalStrike"
              THEN /\ Len(new) >= 1
                   /\ new[Len(new)] \in Candidates(brains[Me])
                   /\ new[Len(new)] \in Range(last'.ret)
                   /\ new = (IF Len(old) = RecentCapacity THEN Tail(old) ELSE old)
                               \o <<new[Len(new)]>>
              ELSE new = old]_vars

\* a fourth Surgical Strike has pushed out the first target: with one mystery
\* of three candidates the first three targets differ, and here the full
\* buffer holds a card twice
OldestTargetEvicted ==
    /\ last.op = "MakeSuggestion" /\ last.branch = "SurgicalStrike"
    /\ Len(Brain.unresolvedSuggestions) = 1
    /\ Cardinality(Candidates(Brain)) = 3
    /\ Len(Brain.recentSurgicalTargets) = RecentCapacity
    /\ Cardinality(Range(Brain.recentSurgicalTargets)) < RecentCapacity

-----------------------------------------------------------------------------
(* C22 *)

\* the cards of the hand that the catalog lists under the category
HandCardsOf(ai, cat) == ai.hand \cap Range(CardListForCategory(ai.config, cat))

\* C22: every suggestion Surgical Strike can return around a target of the
\* catalog lists the target under the category of the target, a card of the
\* hand under every other category the hand has a card of, and a card the
\* unknown-card picker can return under the remaining categories.
SuggestionBuiltAroundTarget ==
    \A made \in SurgicalStrikeStrategy(Brain) :
        LET target == TargetOf(made)
        IN  target \in Range(Brain.config.AllCards) =>
               \A cat \in Range(categories) :
                  IF target \in Range(CardListForCategory(Brain.config, cat))
                  THEN made.suggestion[cat] = target
                  ELSE IF HandCardsOf(Brain, cat) # {}
                  THEN made.suggestion[cat] \in HandCardsOf(Brain, cat)
                  ELSE made.suggestion[cat] \in PickUnknownCard(Brain, cat)

\* a Surgical Strike has returned a suggestion that lists its target and a
\* card of the hand
StrikeUsedHandCard ==
    /\ last.op = "MakeSuggestion" /\ last.branch = "SurgicalStrike"
    /\ LET target == Brain.recentSurgicalTargets[Len(Brain.recentSurgicalTargets)]
       IN  /\ target \in Range(last.ret)
           /\ target \notin Brain.hand
           /\ Range(last.ret) \cap Brain.hand # {}

-----------------------------------------------------------------------------
(* C23 *)

\* the cards of the category that are Yes at solution
SolvedCardsOf(ai, cat) ==
    {card \in Range(CardListForCategory(ai.config, cat)) :
        KnowledgeAt(ai, card, SolutionLoc) = StatusYes}

\* C23: for the brain of every player of a simulation, every suggestion that
\* MakeSuggestion can return from Exploit lists, under a category that has a
\* card Yes at solution, such a card, and under every other category a card
\* the unknown-card picker can return for it.
ExploitListsKnownCards ==
    \A name \in DOMAIN brains :
        \A made \in MakeSuggestion(brains[name]) :
            made.strategy = "Exploit" =>
                \A cat \in Range(categories) :
                    IF SolvedCardsOf(brains[name], cat) # {}
                    THEN made.suggestion[cat] \in SolvedCardsOf(brains[name], cat)
                    ELSE made.suggestion[cat] \in PickUnknownCard(brains[name], cat)

\* the player who moved last
LastPlayer == game.Players[((game.turn - 1) % Len(game.Players)) + 1]

\* the last suggestion came from Exploit, and the player who made it holds
\* one of its cards Yes at solution and another one not
ExploitSuggestionMade ==
    /\ last.op = "MakeSuggestion" /\ last.branch = "Exploit"
    /\ game.turn >= 1
    /\ \E cat \in Range(categories) :
          KnowledgeAt(brains[LastPlayer], last.ret[cat], SolutionLoc) = StatusYes
    /\ \E cat \in Range(categories) :
          KnowledgeAt(brains[LastPlayer], last.ret[cat], SolutionLoc) # StatusYes

-----------------------------------------------------------------------------
(* C24 *)

\* the cards of the category outside the hand
NotInHand(ai, cat) == Range(CardListForCategory(ai.config, cat)) \ ai.hand

\* the cards of the category outside the hand that are Maybe at solution
UnknownOutsideHand(ai, cat) ==
    {card \in NotInHand(ai, cat) : KnowledgeAt(ai, card, SolutionLoc) = StatusMaybe}

\* C24: every card _pickUnknownCard can return for a category is a card of
\* the category; it is outside the hand and Maybe at solution when the
\* category has such a card, and outside the hand when the category has a
\* card outside the hand.
PickerPrefersUnknown ==
    \A cat \in Range(categories) :
        \A card \in PickUnknownCard(Brain, cat) :
            /\ card \in Range(CardListForCategory(Brain.config, cat))
            /\ UnknownOutsideHand(Brain, cat) # {} => card \in UnknownOutsideHand(Brain, cat)
            /\ NotInHand(Brain, cat) # {} => card \in NotInHand(Brain, cat)

\* the picker has returned a card that is outside the hand and not Maybe at
\* solution, for a category with a card in the hand
PickedKnownCard ==
    /\ last.op = "PickUnknownCard"
    /\ last.ret[2] \in NotInHand(Brain, last.ret[1])
    /\ KnowledgeAt(Brain, last.ret[2], SolutionLoc) # StatusMaybe
    /\ HandCardsOf(Brain, last.ret[1]) # {}

-----------------------------------------------------------------------------
(* C25 *)

\* the cards of the suggestion that are in the hand
Showable(ai, suggestion) == Range(suggestion) \cap ai.hand

\* C25: ChooseCardToShow returns "" exactly when no card of the suggestion is
\* in the hand; otherwise every card it can return is in the suggestion and
\* in the hand, and with the deterministic chooser it is the alphabetically
\* first of these cards.
ShowsCardOfHand ==
    \A suggestion \in SuggestionInputs :
        LET shown == ChooseCardToShow(Brain, suggestion)
            both  == Showable(Brain, suggestion)
        IN  /\ ("" \in shown) <=> (both = {})
            /\ both # {} => shown \subseteq both
            /\ (both # {} /\ Brain.chooser = "deterministic") =>
                  \A card \in shown : \A other \in both : Rank(card) <= Rank(other)

\* a brain with the deterministic chooser has shown the first of several
\* cards it held of a suggestion
ShownFirstOfSeveral ==
    /\ last.op = "ChooseCardToShow"
    /\ Brain.chooser = "deterministic"
    /\ Cardinality(Showable(Brain, last.ret[1])) >= 2
    /\ \A other \in Showable(Brain, last.ret[1]) : Rank(last.ret[2]) <= Rank(other)

-----------------------------------------------------------------------------
(* C26 *)

\* C26: a brain with the deterministic chooser has one suggestion that
\* MakeSuggestion can return, and for every suggestion one card that
\* ChooseCardToShow can return.
DeterministicChooserDecides ==
    Brain.chooser = "deterministic" =>
        /\ Cardinality({made.suggestion : made \in MakeSuggestion(Brain)}) = 1
        /\ \A suggestion \in SuggestionInputs :
              Cardinality(ChooseCardToShow(Brain, suggestion)) = 1

-----------------------------------------------------------------------------
(* C27 *)

\* the cards the grid holds Yes at the location of this player
YesAtSelf(ai) ==
    {card \in DOMAIN ai.knowledge : KnowledgeAt(ai, card, ai.name) = StatusYes}

\* C27: after any sequence of calls the cards of the catalog in the hand,
\* which holds the cards given through ReceiveHand, are the cards that are
\* Yes at the location of this player.
HandIsYesAtSelf == Brain.hand \cap Range(Brain.config.AllCards) = YesAtSelf(Brain)

-----------------------------------------------------------------------------
(* C28 *)

\* the cards of the solution of the game
SolutionCards == {game.Solution[cat] : cat \in DOMAIN game.Solution}

\* the players of the game that hold the card
HoldersOf(card) == {name \in Range(game.Players) : card \in brains[name].hand}

\* C28: after deal, for every shuffle and every number of players, the
\* solution holds one card of each category, no player holds a card of the
\* solution, and every other card of the catalog is in the hand of exactly one
\* player, the hands holding cards of the catalog only.
DealPartitionsCatalog ==
    last.op = "deal" =>
        /\ DOMAIN game.Solution = Range(categories)
        /\ \A cat \in DOMAIN game.Solution :
              /\ game.Solution[cat] \in Range(SmallConfig.AllCards)
              /\ TypeOf(SmallConfig, game.Solution[cat]) = cat
        /\ \A name \in Range(game.Players) :
              /\ brains[name].hand \subseteq Range(SmallConfig.AllCards)
              /\ brains[name].hand \cap SolutionCards = {}
        /\ \A card \in Range(SmallConfig.AllCards) \ SolutionCards :
              Cardinality(HoldersOf(card)) = 1

\* a deal to three players from a deck whose last card is not the last of the
\* catalog, one player receiving two cards
DealtToThree ==
    /\ last.op = "deal"
    /\ Len(game.Players) = 3
    /\ last.ret # SmallConfig.AllCards
    /\ \E name \in Range(game.Players) : Cardinality(brains[name].hand) = 2

-----------------------------------------------------------------------------
(* C29 *)

\* the records of a turn of another player that this player disproved, naming
\* the card it showed or no card
DisproverTurnInputs ==
    {TurnResolvedEvent(suggester, suggestion, Me, revealed) :
        suggester \in {"P2", "P3"}, suggestion \in SuggestionInputs,
        revealed \in {"", "Dagger"}}

\* C29: in every reachable state HandleEvent for a turn of another player that
\* this player disproved leaves the grid, the hand, the mysteries and the
\* recent targets of this player as they were.
DisproverTurnChangesNothing ==
    \A event \in DisproverTurnInputs :
        LET after == ProcessTurnEvent(Brain, event).ai
        IN  /\ after.knowledge = Brain.knowledge
            /\ after.hand = Brain.hand
            /\ after.unresolvedSuggestions = Brain.unresolvedSuggestions
            /\ after.recentSurgicalTargets = Brain.recentSurgicalTargets

-----------------------------------------------------------------------------
(* C30 *)

\* C30: a caller changing the value that Config, Players or Knowledge
\* returned leaves the catalog, the player list and the grid of the brain as
\* they were.
GettersKeepEngineState ==
    [][last'.op \in {"Config", "Players", "Knowledge"} =>
          /\ brains'[Me].config = brains[Me].config
          /\ brains'[Me].players = brains[Me].players
          /\ brains'[Me].knowledge = brains[Me].knowledge]_vars

-----------------------------------------------------------------------------
(* C31 *)

\* C31: _markCardLocation of a card at a location where it is Yes already
\* reports no change and leaves the brain as it was, so that from every state
\* a second _markCardLocation(c, l) after a first one changes nothing.
MarkIsIdempotent ==
    \A c \in Range(Brain.config.AllCards) : \A l \in Closed(Brain) \cup {Stranger} :
        LET once == MarkCardLocation(Brain, c, l).ai
        IN  /\ KnowledgeAt(Brain, c, l) = StatusYes =>
                  MarkCardLocation(Brain, c, l) = [ai |-> Brain, changed |-> FALSE]
            /\ MarkCardLocation(once, c, l) = [ai |-> once, changed |-> FALSE]

\* a direct reveal has marked a card at a player, where it is Yes now
MarkedCellIsYes ==
    /\ last.op = "HandleEvent"
    /\ last.branch = "reveal"
    /\ \E c \in Range(Brain.config.AllCards) : KnowledgeAt(Brain, c, "P2") = StatusYes

-----------------------------------------------------------------------------
(* C32 *)

\* whether the card really is at the location: in the hand of that player, or
\* in the solution of the game
ReallyAt(card, loc) ==
    IF loc = SolutionLoc THEN card \in {game.Solution[cat] : cat \in DOMAIN game.Solution}
    ELSE loc \in DOMAIN brains /\ card \in brains[loc].hand

\* C32: in every state of a simulation the beliefs of every brain are sound:
\* a card that is Yes at a location is there, a card that is No at a location
\* is not there, and the disprover of every mystery holds one of its cards.
BeliefsAreSound ==
    \A name \in DOMAIN brains :
        LET ai == brains[name]
        IN  /\ \A card \in DOMAIN ai.knowledge : \A loc \in DOMAIN ai.knowledge[card] :
                  /\ ai.knowledge[card][loc] = StatusYes => ReallyAt(card, loc)
                  /\ ai.knowledge[card][loc] = StatusNo => ~ReallyAt(card, loc)
            /\ \A i \in 1..Len(ai.unresolvedSuggestions) :
                  \E card \in ai.unresolvedSuggestions[i].PossibleCards :
                      ReallyAt(card, ai.unresolvedSuggestions[i].Disprover)

\* a brain tracks a mystery and knows a card in the hand of another player and
\* a card of the solution
SoundBeliefsHeld ==
    \E name \in DOMAIN brains :
        LET ai == brains[name]
        IN  /\ Len(ai.unresolvedSuggestions) >= 1
            /\ \E card \in DOMAIN ai.knowledge :
                  \E loc \in DOMAIN brains \ {name} : ai.knowledge[card][loc] = StatusYes
            /\ \E card \in DOMAIN ai.knowledge : ai.knowledge[card][SolutionLoc] = StatusYes

-----------------------------------------------------------------------------
(* C33 *)

\* the row is Maybe at every location, or Yes at one location and No at every
\* other one
OpenOrSettled(row) ==
    \/ \A loc \in DOMAIN row : row[loc] = StatusMaybe
    \/ \E at \in DOMAIN row :
          /\ row[at] = StatusYes
          /\ \A loc \in DOMAIN row \ {at} : row[loc] = StatusNo

\* C33: after any sequence of calls, the row of every card whose locations
\* are the players and solution is Maybe everywhere or has one Yes and No at
\* every other location, and _deduceCardLocationsByElimination finds no such
\* card to mark.
RowsAreOpenOrSettled ==
    \A card \in DOMAIN Brain.knowledge :
        DOMAIN Brain.knowledge[card] = Closed(Brain) =>
            /\ OpenOrSettled(Brain.knowledge[card])
            /\ DeduceCardLocationsByElimination(Brain).ai.knowledge[card] = Brain.knowledge[card]

\* events have left one card Yes at a player, another Yes at solution and a
\* third Maybe everywhere
SettledAndOpenRows ==
    /\ last.op = "HandleEvent"
    /\ \A card \in DOMAIN Brain.knowledge : DOMAIN Brain.knowledge[card] = Closed(Brain)
    /\ \E card \in DOMAIN Brain.knowledge : Brain.knowledge[card]["P2"] = StatusYes
    /\ \E card \in DOMAIN Brain.knowledge : Brain.knowledge[card][SolutionLoc] = StatusYes
    /\ \E card \in DOMAIN Brain.knowledge :
          \A loc \in Closed(Brain) : Brain.knowledge[card][loc] = StatusMaybe

-----------------------------------------------------------------------------
(* C34 *)

\* C34: whenever a player is about to suggest, the logicEvent of every other
\* player holds no revealed card, and whichever of its matching cards the
\* disprover shows, the brain of every player other than the suggester is
\* the same after the turn.
ShownCardReachesSuggesterOnly ==
    (~game.over /\ game.turn < TurnLimit /\ ShouldAccuse(brains[CurrentPlayer]) = NilSuggestion) =>
        \A made \in MakeSuggestion(brains[CurrentPlayer]) :
            LET bs     == [brains EXCEPT ![CurrentPlayer] = made.ai]
                shows  == HandleSuggestion(game.Players, bs,
                                           (game.turn % Len(game.Players)) + 1,
                                           made.suggestion)
                others == DOMAIN bs \ {CurrentPlayer}
            IN  \A shown \in shows :
                   /\ \A name \in others :
                         LogicEvent(name, CurrentPlayer, made.suggestion, shown).RevealedCard = ""
                   /\ \A other \in shows \ {shown} : \A name \in others :
                         ResolveTurn(bs, CurrentPlayer, made.suggestion, shown)[name]
                            = ResolveTurn(bs, CurrentPlayer, made.suggestion, other)[name]

\* a turn has been played whose disprover held two cards of the suggestion,
\* and a third player was told of it
ShownOneOfTwo ==
    /\ last.op = "MakeSuggestion"
    /\ game.turn >= 1
    /\ Len(game.Players) = 3
    /\ Cardinality(HandleSuggestion(game.Players, brains,
                                    ((game.turn - 1) % Len(game.Players)) + 1,
                                    last.ret)) >= 2

-----------------------------------------------------------------------------
(* C35 *)

\* how many seats after the suggester the player sits, in turn order
SeatsAfter(suggester, name) ==
    LET Seat(p) == CHOOSE i \in 1..Len(game.Players) : game.Players[i] = p
    IN  (Seat(name) - Seat(suggester) + Len(game.Players)) % Len(game.Players)

\* the player has a card of the suggestion to show
CanDisprove(bs, name, suggestion) == ChooseCardToShow(bs[name], suggestion) # {""}

\* C35: whenever a player is about to suggest, handleSuggestion returns as
\* disprover the first player after the suggester in turn order that has a
\* card to show, never the suggester, with a card that player chose; it
\* returns no disprover and no card exactly when no other player has a card to
\* show.
FirstPlayerInTurnOrderDisproves ==
    (~game.over /\ game.turn < TurnLimit /\ ShouldAccuse(brains[CurrentPlayer]) = NilSuggestion) =>
        \A made \in MakeSuggestion(brains[CurrentPlayer]) :
            LET bs     == [brains EXCEPT ![CurrentPlayer] = made.ai]
                others == Range(game.Players) \ {CurrentPlayer}
            IN  \A shown \in HandleSuggestion(game.Players, bs,
                                              (game.turn % Len(game.Players)) + 1,
                                              made.suggestion) :
                   /\ shown[1] = "" <=>
                         \A name \in others : ~CanDisprove(bs, name, made.suggestion)
                   /\ shown[1] = "" <=> shown[2] = ""
                   /\ shown[1] # "" =>
                         /\ shown[1] \in others
                         /\ shown[2] \in ChooseCardToShow(bs[shown[1]], made.suggestion)
                         /\ \A name \in others :
                               SeatsAfter(CurrentPlayer, name) < SeatsAfter(CurrentPlayer, shown[1])
                                  => ~CanDisprove(bs, name, made.suggestion)

\* a turn of three players has been played in which the suggester held a
\* card of its suggestion, the player after it had no card to show and the
\* next one had
SecondPlayerDisproved ==
    /\ last.op = "MakeSuggestion"
    /\ game.turn >= 1
    /\ Len(game.Players) = 3
    /\ \E first, second \in Range(game.Players) :
          /\ SeatsAfter(LastPlayer, first) = 1
          /\ SeatsAfter(LastPlayer, second) = 2
          /\ ~CanDisprove(brains, first, last.ret)
          /\ CanDisprove(brains, second, last.ret)
          /\ CanDisprove(brains, LastPlayer, last.ret)

-----------------------------------------------------------------------------
(* C36 *)

\* the cards of the category that are Yes at solution
YesAtSolution(ai, cat) ==
    {card \in Range(CardListForCategory(ai.config, cat)) :
        KnowledgeAt(ai, card, SolutionLoc) = StatusYes}

\* C36: after any sequence of calls every category has at most one card that
\* is Yes at solution.
OneSolutionCardPerCategory ==
    \A cat \in Range(categories) : Cardinality(YesAtSolution(Brain, cat)) <= 1

-----------------------------------------------------------------------------
(* C37 *)

\* every mystery the brain tracks has two cards or more
MysteriesHaveTwoCards(ai) ==
    \A i \in 1..Len(ai.unresolvedSuggestions) :
        Cardinality(ai.unresolvedSuggestions[i].PossibleCards) >= 2

\* turns of another player, disproved by a third one, whose suggestion names
\* fewer than three cards
ShortTurnInputs ==
    {TurnResolvedEvent("P2", suggestion, "P3", "") :
        suggestion \in {<<>>, [cat \in {CategorySuspect} |-> "Green"],
                        [cat \in {CategorySuspect, CategoryRoom} |->
                            IF cat = CategorySuspect THEN "Plum" ELSE "Hall"]}}

\* C37: when ReceiveHand or HandleEvent has returned, every tracked mystery
\* has at least two cards, also after an event whose suggestion names fewer
\* than three cards.
NoSolvedMysteryTracked ==
    /\ MysteriesHaveTwoCards(Brain)
    /\ \A event \in ShortTurnInputs :
          MysteriesHaveTwoCards(ProcessTurnEvent(Brain, event).ai)

\* an event has removed a mystery and has left another one with two cards
MysteryCutToTwo ==
    /\ last.op = "HandleEvent"
    /\ last.removed # {}
    /\ \E i \in 1..Len(Brain.unresolvedSuggestions) :
          Cardinality(Brain.unresolvedSuggestions[i].PossibleCards) = 2

-----------------------------------------------------------------------------
(* C38 *)

-----------------------------------------------------------------------------
(* C39 *)

\* how often the pass of the loop published or called the kind
CountOf(trace, kind) == Cardinality({i \in DOMAIN trace : trace[i] = kind})

\* the pass of the loop did the first before the second
Before(trace, first, second) ==
    \E i, j \in DOMAIN trace : i < j /\ trace[i] = first /\ trace[j] = second

\* C39: every pass of the loop of RunSimulation starts in a game that is not
\* over and asks the player at index turn mod number of players; it calls
\* ShouldAccuse first; if that player accuses, no suggestion is made, the
\* players and the turn stay as they are and the game is over with that
\* player as winner, and if not MakeSuggestion follows; a pass publishes one
\* GameOverEvent, as its last event, if it ends the game and none if not.
AccusationComesFirstAndEndsTheGame ==
    [][LET current == game.Players[(game.turn % Len(game.Players)) + 1]
              trace   == last'.ret
          IN  /\ ~game.over
              /\ game.turn < TurnLimit =>
                    /\ Before(trace, "TurnStartEvent", "ShouldAccuse")
                    /\ IF PlayerShouldAccuse(brains[current]) # NilSuggestion
                       THEN /\ game'.over /\ game'.winner = current
                            /\ game'.turn = game.turn
                            /\ brains' = brains
                            /\ CountOf(trace, "MakeSuggestion") = 0
                            /\ CountOf(trace, "SuggestionMadeEvent") = 0
                       ELSE /\ ~game'.over
                            /\ Before(trace, "ShouldAccuse", "MakeSuggestion")
                            /\ CountOf(trace, "MakeSuggestion") = 1
              /\ CountOf(trace, "GameOverEvent") = (IF game'.over THEN 1 ELSE 0)
              /\ game'.over => trace[Len(trace)] = "GameOverEvent"]_vars

\* the second player, a brain, has accused after a human player and the brain
\* had made suggestions
BrainAccusedAfterHuman ==
    /\ game.over /\ last.branch = "accusation"
    /\ game.turn >= 3
    /\ game.winner = game.Players[2]
    /\ IsHuman(brains[game.Players[1]])

-----------------------------------------------------------------------------
(* C40 *)

\* C40: every run of RunSimulation comes to its end; the turn counter never
\* passes the limit of 50 and goes up by one in every pass with a suggestion
\* and in no other; no pass starts after the end; the game ends with an
\* accusation, or at turn 50 with no winner and isCorrect false.
SimulationTerminates ==
    /\ [](game.turn <= TurnLimit)
    /\ [][/\ ~game.over
          /\ game'.turn = game.turn + (IF last'.branch = "suggestion" THEN 1 ELSE 0)
          /\ game'.over <=> last'.branch \in {"accusation", "limit"}]_vars
    /\ [](game.over =>
            \/ last.branch = "accusation" /\ game.winner # ""
            \/ /\ last.branch = "limit" /\ game.turn = TurnLimit
               /\ game.winner = "" /\ ~game.isCorrect)
    /\ <>game.over

\* the game has ended on the turn limit
EndedOnTurnLimit == game.over /\ last.branch = "limit" /\ game.turn = TurnLimit

====
